---- MODULE Spec2Model ----
(***************************************************************************)
(* Character entity resolution of the book-characters chatbot:             *)
(* CharacterService (src/src/services/character_service.py).               *)
(*                                                                         *)
(* Names are strings; a character of a string is the one-character string  *)
(* SubSeq(s, i, i).  A mention / character dict is a record                *)
(*   [name, description, role, aliases, character_id]                      *)
(* in which aliases = <<>> stands for "the dict has no 'aliases' key" and  *)
(* character_id = "" for "no 'character_id' key" (the code never stores an *)
(* empty alias list or an empty id).  A list of dicts that the code builds *)
(* is a sequence of [obj, char] pairs: char is the dict's value and obj    *)
(* its identity, the index in characters of the input dict it is, or 0 for *)
(* a dict made by copy().                                                  *)
(***************************************************************************)
EXTENDS Integers, Sequences, FiniteSets, TLC

VARIABLES
    characters,           \* the dicts of json.loads(content), in order; mutated in place
    max_characters,       \* extract_characters' argument
    pc,                   \* position in extract_characters / _merge_characters
    filtered_characters,  \* indices (object references) into characters
    cluster_labels,       \* fit_predict's label of each filtered character
    path,                 \* branch of _merge_characters that produced merged
    merged,               \* the list _merge_characters returned, as it was returned
    roster,               \* the list extract_characters builds from it and returns
    names,                \* argument of a direct _select_canonical_name call
    canonical,            \* its result
    raw_name,             \* argument of a direct _normalize_name / _is_non_character call
    norm_name,            \* result of _normalize_name
    norm_again,           \* result of _normalize_name on that result
    rejected,             \* result of _is_non_character
    payload,              \* json.loads(content) of any shape, as a tagged JSON value
    outcome,              \* how extract_characters ended: "returned" or "raised"
    self_non_character_terms,   \* self.non_character_terms of the shared service
    self_descriptive_patterns,  \* self.descriptive_patterns of the shared service
    calls,                \* the locals of each concurrent _merge_characters call
    mention1,             \* arguments of a direct _are_same_character call
    mention2,
    is_same,              \* its result
    files,                \* the files under data/: path -> content
    request,              \* the call or HTTP request served last
    response,             \* what it returned
    extraction_ran,       \* whether serving it ran the character extraction
    tasks,                \* document -> position of its process_document_background run
    collection,           \* the documents with chunks in the vector store
    chat_sessions         \* the chat_sessions table: session_id -> row

resolverVars == <<characters, max_characters, pc, filtered_characters, cluster_labels,
                  path, merged, roster, names, canonical>>
nameVars == <<raw_name, norm_name, norm_again, rejected>>
\* the variables of the calls that extract_characters is no part of
payloadVars == <<payload, outcome>>
\* one CharacterService shared by concurrent resolver invocations
serviceVars == <<self_non_character_terms, self_descriptive_patterns, calls>>
scorerVars == <<mention1, mention2, is_same>>
cacheVars == <<files, request, response, extraction_ran>>
\* the variables of the file-backed stores and their routes
statusVars == <<tasks, collection>>
chatVars == <<chat_sessions>>
storeVars == <<cacheVars, statusVars, chatVars>>
\* the variables of the resolver and of the direct calls of its methods
coreVars == <<resolverVars, nameVars, payloadVars, serviceVars, scorerVars>>
restVars == <<serviceVars, scorerVars, storeVars>>
otherVars == <<nameVars, payloadVars, restVars>>

vars == <<resolverVars, otherVars>>

(***************************************************************************)
(* Bounds of the model.                                                    *)
(***************************************************************************)
MaxMentions == 3
MaxChars == 2
MaxNames == 3
MaxNameLen == 3
MaxWords == 3
MaxItems == 2
MaxOwnMentions == 2
MaxExchanges == 2

(***************************************************************************)
(* Characters and strings.                                                 *)
(***************************************************************************)
Ch(s, i) == SubSeq(s, i, i)

UpperChars == "ABCDEFGHIJKLMNOPQRSTUVWXYZ"
LowerChars == "abcdefghijklmnopqrstuvwxyz"
DigitChars == "0123456789"
\* the characters of the model's names, in code point order
AsciiOrder == "\t !'(),-.0123456789ABCDEFGHIJKLMNOPQRSTUVWXYZ_abcdefghijklmnopqrstuvwxyz"

CharsOf(s) == {Ch(s, i) : i \in 1..Len(s)}
CharSet == CharsOf(AsciiOrder)

Ord == [c \in CharSet |-> CHOOSE i \in 1..Len(AsciiOrder) : Ch(AsciiOrder, i) = c]

\* str.lower() on one character
LowerChar == [c \in CharSet |->
                IF c \in CharsOf(UpperChars)
                THEN Ch(LowerChars, CHOOSE i \in 1..26 : Ch(UpperChars, i) = c)
                ELSE c]

WordChars == CharsOf(UpperChars) \cup CharsOf(LowerChars) \cup CharsOf(DigitChars)
                 \cup {"_"}
SlugChars == CharsOf(LowerChars) \cup CharsOf(DigitChars) \cup {"_"}

IsSpace(c) == c \in {" ", "\t"}   \* \s
IsWord(c) == c \in WordChars   \* \w

RECURSIVE Lower(_)
Lower(s) == IF s = "" THEN "" ELSE LowerChar[Head(s)] \o Lower(Tail(s))

\* re.sub(r'[^\w\s\-\']', '', s): drops every character that is neither a
\* word character, whitespace, a hyphen nor an apostrophe
RECURSIVE StripPunct(_)
StripPunct(s) ==
    IF s = "" THEN ""
    ELSE (IF IsWord(Head(s)) \/ IsSpace(Head(s)) \/ Head(s) \in {"-", "'"}
          THEN Head(s) ELSE "") \o StripPunct(Tail(s))

\* str.split(): the maximal runs of non-whitespace
RECURSIVE Split(_)
Split(s) ==
    IF s = "" THEN <<>>
    ELSE IF IsSpace(Head(s)) THEN Split(Tail(s))
    ELSE LET stops == {i \in 1..Len(s) : IsSpace(Ch(s, i))}
             n == IF stops = {} THEN Len(s) + 1
                  ELSE CHOOSE i \in stops : \A j \in stops : i <= j
         IN  <<SubSeq(s, 1, n - 1)>> \o Split(SubSeq(s, n, Len(s)))

\* ' '.join(words)
RECURSIVE Join(_)
Join(ws) ==
    IF ws = <<>> THEN ""
    ELSE IF Len(ws) = 1 THEN ws[1]
    ELSE ws[1] \o " " \o Join(Tail(ws))

\* Python's sub in s
Contains(sub, s) ==
    \E i \in 1..(Len(s) + 1) :
        i + Len(sub) - 1 <= Len(s) /\ SubSeq(s, i, i + Len(sub) - 1) = sub

Range(f) == {f[i] : i \in DOMAIN f}

Min(a, b) == IF a < b THEN a ELSE b

\* Python's string order (by code point), used by sorted()
RECURSIVE StrLess(_, _)
StrLess(a, b) ==
    IF b = "" THEN FALSE
    ELSE IF a = "" THEN TRUE
    ELSE IF Head(a) = Head(b) THEN StrLess(Tail(a), Tail(b))
    ELSE Ord[Head(a)] < Ord[Head(b)]

\* sorted(list(S)) for a set S of strings
RECURSIVE Sorted(_)
Sorted(S) ==
    IF S = {} THEN <<>>
    ELSE LET m == CHOOSE x \in S : \A y \in S \ {x} : StrLess(x, y)
         IN  <<m>> \o Sorted(S \ {m})

\* the sequences that list each element of S once: list(S) of a Python set
\* iterates in hash order, which the input does not determine
Perms(S) == {p \in [1..Cardinality(S) -> S] : Range(p) = S}

(***************************************************************************)
(* Regular expressions, as far as the service's patterns use them.         *)
(* Ends(r, s, P): the positions where a match of r can end when it starts  *)
(* at a position of P (positions are indices of the next character).       *)
(***************************************************************************)
Lit(w) == [t |-> "lit", w |-> w]
Alt(rs) == [t |-> "alt", rs |-> rs]
Cat(rs) == [t |-> "cat", rs |-> rs]
Opt(r) == [t |-> "opt", r |-> r]
Star(c) == [t |-> "star", c |-> c]
Plus(c) == [t |-> "plus", c |-> c]
End == [t |-> "end"]

InClass(c, x) ==
    CASE c = "any" -> TRUE
      [] c = "ws" -> IsSpace(x)
      [] c = "word" -> IsWord(x)

Words(ws) == Alt([i \in DOMAIN ws |-> Lit(ws[i])])

RECURSIVE Ends(_, _, _)
Ends(r, s, P) ==
    CASE r.t = "lit" ->
            {p + Len(r.w) : p \in {q \in P : /\ q + Len(r.w) - 1 <= Len(s)
                                             /\ SubSeq(s, q, q + Len(r.w) - 1) = r.w}}
      [] r.t = "alt" -> UNION {Ends(r.rs[k], s, P) : k \in DOMAIN r.rs}
      [] r.t = "cat" ->
            IF Len(r.rs) = 0 THEN P
            ELSE Ends(Cat(Tail(r.rs)), s, Ends(Head(r.rs), s, P))
      [] r.t = "opt" -> P \cup Ends(r.r, s, P)
      [] r.t = "star" ->
            {q \in 1..(Len(s) + 1) :
                \E p \in P : p <= q /\ \A i \in p..(q - 1) : InClass(r.c, Ch(s, i))}
      [] r.t = "plus" ->
            {q \in 1..(Len(s) + 1) :
                \E p \in P : p < q /\ \A i \in p..(q - 1) : InClass(r.c, Ch(s, i))}
      [] r.t = "end" -> {p \in P : p = Len(s) + 1}

\* re.match(pattern, s): a match that starts at the beginning of s
ReMatch(r, s) == Ends(r, s, {1}) # {}

(***************************************************************************)
(* CharacterService: normalisation and the non-character filter.           *)
(***************************************************************************)
\* mutant: the punctuation is removed after the whitespace is normalized
NormalizeNameStripLast(name) == StripPunct(Join(Split(Lower(name))))

NormalizeName(name) == Join(Split(StripPunct(Lower(name))))

non_character_terms ==
    {"idiot", "fool", "princess", "your majesty", "majesty",
     "bloodstained queen", "bloody reina", "reina",
     "lieutenant", "captain", "commander", "colonel",
     "eighty-six", "soldiers", "troops", "children",
     "boy", "girl", "stranger", "enemy", "friend",
     "handler", "officer", "general", "master", "mistress",
     "lord", "lady", "sir", "madam", "miss", "mr", "mrs", "ms",
     "weakest", "strongest"}

Superlatives == Words(<<"weakest", "strongest", "best", "worst", "greatest", "lowest">>)
OptThe == Opt(Cat(<<Lit("the"), Plus("ws")>>))

\* the patterns are matched against a normalized, hence lower-case, name:
\* re.IGNORECASE changes nothing there
descriptive_patterns ==
    << Cat(<<Star("any"), Plus("ws"), Superlatives, Plus("ws"), Star("any")>>),
       Cat(<<Star("any"), Lit("the"), Plus("ws"), Superlatives, Star("any")>>),
       Cat(<<Star("any"), Lit("of"), Plus("ws"), Lit("the"), Plus("ws"), Star("any")>>),
       Cat(<<Star("any"), Lit("who"), Plus("ws"), Star("any")>>),
       Cat(<<Star("any"), Lit("that"), Plus("ws"), Star("any")>>) >>

title_pattern ==
    Cat(<<OptThe,
          Words(<<"lieutenant", "captain", "commander", "colonel", "general",
                  "officer", "handler">>),
          Star("ws"), Opt(Words(<<"one", "two", "three">>)), End>>)

group_pattern ==
    Cat(<<OptThe,
          Words(<<"soldiers", "troops", "children", "enemies", "friends", "group",
                  "squad", "unit">>),
          End>>)

descriptive_pattern ==
    Cat(<<OptThe, Words(<<"world", "world's", "kingdom", "realm", "land">>),
          Opt(Lit("'")), Opt(Lit("s")), Plus("ws"), Superlatives, Plus("ws"),
          Star("any")>>)

\* _is_non_character reading the tables of the instance it is called on
IsNonCharacterOn(terms, patterns, name) ==
    LET normalized == NormalizeName(name)
        name_words == Range(Split(normalized))
    IN  \/ normalized \in terms
        \/ /\ name_words \cap terms # {}
           /\ Cardinality(name_words) >= 3
        \/ \E k \in DOMAIN patterns : ReMatch(patterns[k], normalized)
        \/ ReMatch(title_pattern, normalized)
        \/ ReMatch(group_pattern, normalized)
        \/ ReMatch(descriptive_pattern, normalized)

\* on an instance whose tables are the constructed ones
IsNonCharacter(name) == IsNonCharacterOn(non_character_terms, descriptive_patterns, name)

(***************************************************************************)
(* CharacterService: canonical name selection.                             *)
(***************************************************************************)
title_patterns ==
    << Cat(<<OptThe, Lit("handler"), Plus("ws"),
             Words(<<"one", "two", "three", "four", "five", "1", "2", "3", "4", "5">>)>>),
       Cat(<<OptThe, Words(<<"captain", "commander", "lieutenant", "colonel",
                             "general", "officer">>)>>),
       Cat(<<OptThe, Words(<<"undertaker", "reaper", "handler", "observer",
                             "striker">>)>>),
       Cat(<<Words(<<"sir", "madam", "lord", "lady", "master", "mistress">>),
             Plus("ws"), Plus("word")>>) >>

IsTitlePattern(name) ==
    \E k \in DOMAIN title_patterns : ReMatch(title_patterns[k], Lower(name))

\* ' ' in name and len(name.split()) >= 2
IsFullName(name) == Contains(" ", name) /\ Len(Split(name)) >= 2

\* max(list, key=len): the first element of maximal length
MaxByLen(list) ==
    list[CHOOSE i \in DOMAIN list :
            /\ \A j \in DOMAIN list : Len(list[j]) <= Len(list[i])
            /\ \A j \in 1..(i - 1) : Len(list[j]) < Len(list[i])]

\* mutant: a full name is taken before the title patterns are looked at
SelectCanonicalNameFullFirst(name_list) ==
    LET IsFull(n) == IsFullName(n)
        IsSingle(n) == ~IsFullName(n) /\ ~IsTitlePattern(n)
        IsTitle(n) == ~IsFullName(n) /\ IsTitlePattern(n)
        titles == SelectSeq(name_list, IsTitle)
        full_names == SelectSeq(name_list, IsFull)
        single_names == SelectSeq(name_list, IsSingle)
    IN  IF name_list = <<>> THEN "Unknown"
        ELSE IF full_names # <<>> THEN MaxByLen(full_names)
        ELSE IF single_names # <<>> THEN MaxByLen(single_names)
        ELSE IF titles # <<>> THEN titles[1]
        ELSE name_list[1]

\* mutant: only single names longer than 2 characters count as single names
SelectCanonicalNameLongSingles(name_list) ==
    LET IsTitle(n) == IsTitlePattern(n)
        IsFull(n) == ~IsTitlePattern(n) /\ IsFullName(n)
        IsSingle(n) == ~IsTitlePattern(n) /\ ~IsFullName(n) /\ Len(n) > 2
        titles == SelectSeq(name_list, IsTitle)
        full_names == SelectSeq(name_list, IsFull)
        single_names == SelectSeq(name_list, IsSingle)
    IN  IF name_list = <<>> THEN "Unknown"
        ELSE IF full_names # <<>> THEN MaxByLen(full_names)
        ELSE IF single_names # <<>> THEN MaxByLen(single_names)
        ELSE IF titles # <<>> THEN titles[1]
        ELSE name_list[1]

SelectCanonicalName(name_list) ==
    LET IsTitle(n) == IsTitlePattern(n)
        IsFull(n) == ~IsTitlePattern(n) /\ IsFullName(n)
        IsSingle(n) == ~IsTitlePattern(n) /\ ~IsFullName(n)
        titles == SelectSeq(name_list, IsTitle)
        full_names == SelectSeq(name_list, IsFull)
        single_names == SelectSeq(name_list, IsSingle)
    IN  IF name_list = <<>> THEN "Unknown"
        ELSE IF full_names # <<>> THEN MaxByLen(full_names)
        ELSE IF single_names # <<>> THEN MaxByLen(single_names)
        ELSE IF titles # <<>> THEN titles[1]
        ELSE name_list[1]

(***************************************************************************)
(* CharacterService: merging.                                              *)
(***************************************************************************)
\* max(list, key): the first element whose key is maximal
MaxBy(list, key(_)) ==
    list[CHOOSE i \in DOMAIN list :
            /\ \A j \in DOMAIN list : key(list[j]) <= key(list[i])
            /\ \A j \in 1..(i - 1) : key(list[j]) < key(list[i])]

\* role_priority.get(role, 0)
role_priority(role) ==
    CASE role = "protagonist" -> 3
      [] role = "supporting" -> 2
      [] role = "antagonist" -> 1
      [] OTHER -> 0

\* the multi-member branch of _merge_cluster with one field changed
MergeClusterWith(cluster_chars, name_list, field, value) ==
    LET chars == [i \in DOMAIN cluster_chars |-> cluster_chars[i].char]
        DescLen(c) == Len(c.description)
        Prio(c) == role_priority(c.role)
        all_names == {chars[i].name : i \in DOMAIN chars}
        m == [chars[1] EXCEPT
                !.description = MaxBy(chars, DescLen).description,
                !.role = MaxBy(chars, Prio).role,
                !.name = SelectCanonicalName(name_list),
                !.aliases = Sorted(all_names)]
    IN  IF Len(cluster_chars) = 1
        THEN [obj |-> cluster_chars[1].obj,
              char |-> [chars[1] EXCEPT !.aliases = <<chars[1].name>>]]
        ELSE [obj |-> 0, char |-> [m EXCEPT ![field] = value]]

\* mutant: the aliases of a merged cluster are only its canonical name
MergeClusterCanonicalOnly(cluster_chars, name_list) ==
    MergeClusterWith(cluster_chars, name_list, "aliases",
                     <<SelectCanonicalName(name_list)>>)

\* mutant: a one-member cluster is returned without its aliases
MergeClusterNoSingletonAliases(cluster_chars, name_list) ==
    IF Len(cluster_chars) = 1 THEN cluster_chars[1]
    ELSE MergeClusterWith(cluster_chars, name_list, "name",
                          SelectCanonicalName(name_list))

\* mutant: the description of the first member is kept
MergeClusterFirstDescription(cluster_chars, name_list) ==
    MergeClusterWith(cluster_chars, name_list, "description",
                     cluster_chars[1].char.description)

\* mutant: the role of the first member is kept
MergeClusterFirstRole(cluster_chars, name_list) ==
    MergeClusterWith(cluster_chars, name_list, "role", cluster_chars[1].char.role)

\* _merge_cluster; cluster_chars are [obj, char] pairs: the dict's identity and
\* its value.  name_list is list(all_names).  The result of a one-member
\* cluster is the member itself (obj kept), otherwise a fresh copy (obj 0).
MergeCluster(cluster_chars, name_list) ==
    LET chars == [i \in DOMAIN cluster_chars |-> cluster_chars[i].char]
        DescLen(c) == Len(c.description)
        Prio(c) == role_priority(c.role)
        all_names == {chars[i].name : i \in DOMAIN chars}
    IN  IF Len(cluster_chars) = 1
        THEN [obj |-> cluster_chars[1].obj,
              char |-> [chars[1] EXCEPT !.aliases = <<chars[1].name>>]]
        ELSE [obj |-> 0,
              char |-> [chars[1] EXCEPT
                          !.description = MaxBy(chars, DescLen).description,
                          !.role = MaxBy(chars, Prio).role,
                          !.name = SelectCanonicalName(name_list),
                          !.aliases = Sorted(all_names)]]

\* _simple_merge from the i-th character on; acc is merged so far.  seen_names
\* maps the normalized name of each character of merged to that character.
RECURSIVE SimpleMergeFrom(_, _, _)
SimpleMergeFrom(chars, i, acc) ==
    IF i > Len(chars) THEN acc
    ELSE LET c == chars[i]
             normalized == NormalizeName(c.char.name)
             seen == {j \in DOMAIN acc : NormalizeName(acc[j].char.name) = normalized}
         IN  IF seen = {}
             THEN SimpleMergeFrom(chars, i + 1,
                     Append(acc, [c EXCEPT !.char.aliases = <<c.char.name>>]))
             ELSE LET j == CHOOSE j \in seen : TRUE
                  IN  SimpleMergeFrom(chars, i + 1,
                         [acc EXCEPT ![j].char.aliases =
                             IF c.char.name \in Range(@) THEN @
                             ELSE Append(@, c.char.name)])

\* mutant: seen_names is keyed by the raw name, not by the normalized name
RECURSIVE SimpleMergeRawFrom(_, _, _)
SimpleMergeRawFrom(chars, i, acc) ==
    IF i > Len(chars) THEN acc
    ELSE LET c == chars[i]
             seen == {j \in DOMAIN acc : acc[j].char.name = c.char.name}
         IN  IF seen = {}
             THEN SimpleMergeRawFrom(chars, i + 1,
                     Append(acc, [c EXCEPT !.char.aliases = <<c.char.name>>]))
             ELSE SimpleMergeRawFrom(chars, i + 1, acc)

SimpleMergeByRawName(chars) == SimpleMergeRawFrom(chars, 1, <<>>)

\* mutant: seen_names is never consulted, every character is kept
SimpleMergeNoDedup(chars) ==
    [i \in DOMAIN chars |-> [chars[i] EXCEPT !.char.aliases = <<chars[i].char.name>>]]

SimpleMerge(chars) == SimpleMergeFrom(chars, 1, <<>>)

(***************************************************************************)
(* The vectorizer and the clustering are library code (scikit-learn).  The *)
(* model keeps what the library guarantees about fit_predict's labels and  *)
(* leaves the rest open:                                                   *)
(*  - TfidfVectorizer(analyzer='char', ngram_range=(2, 3), lowercase=True) *)
(*    sees a name as the 2- and 3-grams of its lower-cased text, so names  *)
(*    with the same such text get the same vector, are at cosine distance  *)
(*    0 and share a label;                                                 *)
(*  - a name in a cluster of several has average distance < 0.4 to other   *)
(*    members, so it shares an n-gram with one of them;                    *)
(*  - the labels are 0..k-1; which cluster gets which label follows the    *)
(*    merge tree, not the input order;                                     *)
(*  - a name without any 2-gram gives a zero vector, which the cosine      *)
(*    metric rejects with an exception.                                    *)
(***************************************************************************)
RECURSIVE CollapseWs(_)
CollapseWs(s) ==
    IF Len(s) < 2 THEN s
    ELSE IF IsSpace(Head(s)) /\ IsSpace(Head(Tail(s)))
         THEN CollapseWs(" " \o Tail(Tail(s)))
    ELSE Head(s) \o CollapseWs(Tail(s))

VecText(name) == CollapseWs(Lower(name))

Grams(t) == {SubSeq(t, i, i + n - 1) : <<i, n>> \in
                {<<i, n>> \in (1..Len(t)) \X {2, 3} : i + n - 1 <= Len(t)}}

\* text, same and near are bound once per name list
Labelings(name_list) ==
    LET n == Len(name_list)
    IN  UNION {
          UNION {
            {l \in [1..n -> 0..(n - 1)] :
               /\ \A i \in 1..n : \A k \in 0..(l[i] - 1) : \E j \in 1..n : l[j] = k
               /\ \A p \in same : l[p[1]] = l[p[2]]
               /\ \A i \in 1..n :
                     (\E j \in 1..n : j # i /\ l[j] = l[i])
                     => \E j \in near[i] : l[j] = l[i]} :
            near \in {[i \in 1..n |->
                        {j \in 1..n : j # i /\ Grams(text[i]) \cap Grams(text[j]) # {}}]},
            same \in {{p \in (1..n) \X (1..n) : text[p[1]] = text[p[2]]}} } :
          text \in {[i \in 1..n |-> VecText(name_list[i])]} }

(***************************************************************************)
(* CharacterService: the pairwise similarity heuristics.                   *)
(* difflib.SequenceMatcher(None, a, b).ratio() is 2.0 * M / T, M the sum   *)
(* of the matching blocks and T = len(a) + len(b); the strings are far     *)
(* shorter than the 200 characters at which autojunk sets in.  A ratio is  *)
(* compared with a threshold num / den in integers: 2.0 * M / T is the     *)
(* double nearest to the quotient, and 0.85 and 0.7 are the doubles        *)
(* nearest to 17/20 and 7/10.                                              *)
(***************************************************************************)
\* find_longest_match: <<i, j, k>> of the longest block a[i..i+k-1] =
\* b[j..j+k-1], the earliest in a and then the earliest in b; k = 0 if none
LongestMatch(a, b) ==
    LET Starts(k) == {<<i, j>> \in (1..(Len(a) - k + 1)) \X (1..(Len(b) - k + 1)) :
                         SubSeq(a, i, i + k - 1) = SubSeq(b, j, j + k - 1)}
        sizes == {k \in 1..Min(Len(a), Len(b)) : Starts(k) # {}}
    IN  IF sizes = {} THEN <<1, 1, 0>>
        ELSE LET k == CHOOSE x \in sizes : \A y \in sizes : y <= x
                 at == Starts(k)
                 i == CHOOSE x \in {p[1] : p \in at} : \A p \in at : x <= p[1]
                 j == CHOOSE y \in {p[2] : p \in at} :
                         /\ <<i, y>> \in at
                         /\ \A p \in at : p[1] = i => y <= p[2]
             IN  <<i, j, k>>

\* get_matching_blocks: the sum of the sizes of the matching blocks
RECURSIVE Matches(_, _)
Matches(a, b) ==
    IF a = "" \/ b = "" THEN 0
    ELSE LET m == LongestMatch(a, b)
         IN  IF m[3] = 0 THEN 0
             ELSE m[3]
                  + Matches(SubSeq(a, 1, m[1] - 1), SubSeq(b, 1, m[2] - 1))
                  + Matches(SubSeq(a, m[1] + m[3], Len(a)), SubSeq(b, m[2] + m[3], Len(b)))

\* _calculate_similarity(str1, str2) >= num / den, and > num / den
SimilarityAtLeast(str1, str2, num, den) ==
    IF Len(str1) + Len(str2) = 0 THEN den >= num
    ELSE 2 * Matches(str1, str2) * den >= num * (Len(str1) + Len(str2))

SimilarityAbove(str1, str2, num, den) ==
    IF Len(str1) + Len(str2) = 0 THEN den > num
    ELSE 2 * Matches(str1, str2) * den > num * (Len(str1) + Len(str2))

IsNameSubset(short, long) ==
    LET short_parts == Range(Split(Lower(short)))
        long_parts == Range(Split(Lower(long)))
    IN  \E short_part \in short_parts : \E long_part \in long_parts :
           \/ Contains(short_part, long_part)
           \/ Contains(long_part, short_part)
           \/ SimilarityAbove(short_part, long_part, 85, 100)

FuzzyMatch(name1, name2) ==
    LET norm1 == NormalizeName(name1)
        norm2 == NormalizeName(name2)
        common_words == Range(Split(norm1)) \cap Range(Split(norm2))
    IN  \/ norm1 = norm2
        \/ Contains(norm1, norm2) \/ Contains(norm2, norm1)
        \/ IsNameSubset(norm1, norm2) \/ IsNameSubset(norm2, norm1)
        \/ SimilarityAtLeast(norm1, norm2, 85, 100)
        \/ \E word \in common_words : Len(word) > 3

\* re.sub(r'\([^)]*\)', '', name): drops each "(" up to the next ")"; a "("
\* with no ")" after it stays
RECURSIVE DropParenthesised(_)
DropParenthesised(s) ==
    IF s = "" THEN ""
    ELSE IF Head(s) = "(" /\ \E i \in 2..Len(s) : Ch(s, i) = ")"
    THEN LET close == CHOOSE i \in 2..Len(s) :
                         Ch(s, i) = ")" /\ \A k \in 2..(i - 1) : Ch(s, k) # ")"
         IN  DropParenthesised(SubSeq(s, close + 1, Len(s)))
    ELSE Head(s) \o DropParenthesised(Tail(s))

\* re.sub(r'["\']', '', cleaned)
RECURSIVE DropQuotes(_)
DropQuotes(s) ==
    IF s = "" THEN ""
    ELSE (IF Head(s) \in {"\"", "'"} THEN "" ELSE Head(s)) \o DropQuotes(Tail(s))

ExtractNameParts(name) ==
    LET parts == Split(DropQuotes(DropParenthesised(name)))
    IN  {NormalizeName(parts[k]) : k \in {x \in DOMAIN parts : Len(parts[x]) > 1}}

\* mutant: the descriptions are compared even when they are empty
AreSameCharacterNoGuard(char1, char2) ==
    LET Get(c, key) == IF key \in DOMAIN c THEN c[key] ELSE ""
        name1 == Get(char1, "name")
        name2 == Get(char2, "name")
        desc1 == Lower(Get(char1, "description"))
        desc2 == Lower(Get(char2, "description"))
    IN  IF name1 = "" \/ name2 = "" THEN FALSE
        ELSE \/ FuzzyMatch(name1, name2)
             \/ SimilarityAbove(desc1, desc2, 7, 10)
             \/ \E p \in ExtractNameParts(name1) \cap ExtractNameParts(name2) :
                   Len(p) > 3

\* char1 and char2 are the dicts as given: a key may be absent (get's default)
AreSameCharacter(char1, char2) ==
    LET Get(c, key) == IF key \in DOMAIN c THEN c[key] ELSE ""
        name1 == Get(char1, "name")
        name2 == Get(char2, "name")
        desc1 == Lower(Get(char1, "description"))
        desc2 == Lower(Get(char2, "description"))
        norm1 == NormalizeName(name1)
        norm2 == NormalizeName(name2)
    IN  IF name1 = "" \/ name2 = "" THEN FALSE
        ELSE \/ FuzzyMatch(name1, name2)
             \/ /\ desc1 # "" /\ desc2 # ""
                /\ \/ SimilarityAbove(desc1, desc2, 7, 10)
                   \/ Contains(norm1, desc2)
                   \/ Contains(norm2, desc1)
             \/ \E p \in ExtractNameParts(name1) \cap ExtractNameParts(name2) :
                   Len(p) > 3

(***************************************************************************)
(* State machine of extract_characters from json.loads on.                 *)
(***************************************************************************)
Roles == {"protagonist", "supporting", "antagonist"}

Mention(n, d, r) ==
    [name |-> n, description |-> d, role |-> r, aliases |-> <<>>, character_id |-> ""]

\* the mentions the LLM may emit
MentionPool ==
    { Mention("Sung Jinwoo", "An E-rank hunter who receives quests", "protagonist"),
      Mention("Jinwoo", "A hunter", "supporting"),
      Mention("idiot", "A hunter", "supporting"),
      Mention("Bob", "A healer", "antagonist"),
      Mention("bob", "A healer who worries", "protagonist"),
      Mention("Bob", "", "supporting"),
      Mention("V", "A hunter", "antagonist"),
      Mention("Alice", "A healer", "supporting"),
      Mention("Sung_Jinwoo", "A hunter", "supporting") }

MentionLists == UNION {[1..n -> MentionPool] : n \in 0..MaxMentions}

\* the names handed to _select_canonical_name directly
NamePool ==
    {"Sung Jinwoo", "Jinwoo", "Sung", "Captain Levi Ackerman", "Levi",
     "Undertaker", "Al", "Handler One"}

\* no direct call of _normalize_name or _is_non_character is made
NameIdle == raw_name = "" /\ norm_name = "" /\ norm_again = "" /\ rejected = FALSE

\* JSON values: the type json.loads gives and the value
JNull == [type |-> "null"]
JBool(b) == [type |-> "bool", val |-> b]
JNumber(n) == [type |-> "number", val |-> n]
JString(s) == [type |-> "string", val |-> s]
JArray(items) == [type |-> "array", items |-> items]
JObject(fields) == [type |-> "object", fields |-> fields]

\* extract_characters is not run on a payload of any shape
PayloadIdle == payload = JNull /\ outcome = "none"

\* the shared CharacterService as __init__ built it, no invocation running on it
ServiceIdle ==
    /\ self_non_character_terms = non_character_terms
    /\ self_descriptive_patterns = descriptive_patterns
    /\ calls = <<>>

\* no direct call of _are_same_character is made
ScorerIdle == mention1 = <<>> /\ mention2 = <<>> /\ is_same = FALSE

\* no cache call and no route is served
CacheIdle ==
    /\ files = <<>>
    /\ request = [op |-> "none"]
    /\ response = [op |-> "none"]
    /\ extraction_ran = FALSE

\* no upload is made
StatusIdle == tasks = <<>> /\ collection = {}

\* no chat session is stored
ChatIdle == chat_sessions = <<>>

StoreIdle == CacheIdle /\ StatusIdle /\ ChatIdle

RestIdle == ServiceIdle /\ ScorerIdle /\ StoreIdle

OtherIdle == NameIdle /\ PayloadIdle /\ RestIdle

Init ==
    /\ characters \in MentionLists
    /\ max_characters \in 0..MaxChars
    /\ pc = "parsed"
    /\ filtered_characters = <<>>
    /\ cluster_labels = <<>>
    /\ path = "none"
    /\ merged = <<>>
    /\ roster = <<>>
    /\ names = <<>>
    /\ canonical = ""
    /\ OtherIdle

\* the filtered characters as [obj, char] pairs
FilteredChars ==
    [i \in DOMAIN filtered_characters |->
        [obj |-> filtered_characters[i], char |-> characters[filtered_characters[i]]]]

\* the input dicts after the merge: a returned character that is an input dict
\* (obj # 0) was changed in place
WriteBack(out) ==
    [i \in DOMAIN characters |->
        IF \E j \in DOMAIN out : out[j].obj = i
        THEN out[CHOOSE j \in DOMAIN out : out[j].obj = i].char
        ELSE characters[i]]

Returned(out, p) ==
    /\ merged' = out
    /\ characters' = WriteBack(out)
    /\ path' = p
    /\ pc' = "merged"

\* if not characters: return []
MergeEmpty ==
    /\ pc = "parsed"
    /\ characters = <<>>
    /\ Returned(<<>>, "empty")
    /\ UNCHANGED <<max_characters, filtered_characters, cluster_labels, roster,
                   names, canonical>>
    /\ UNCHANGED otherVars

\* mutant: the first pass keeps every character
KeepsAll(i) == TRUE

\* first pass: filter out non-characters
KeepsCharacter(i) == ~IsNonCharacter(characters[i].name)

FilterNonCharacters ==
    /\ pc = "parsed"
    /\ characters # <<>>
    /\ filtered_characters' =
          SelectSeq([i \in DOMAIN characters |-> i], KeepsCharacter)
    /\ pc' = "filtered"
    /\ UNCHANGED <<characters, max_characters, cluster_labels, path, merged, roster,
                   names, canonical>>
    /\ UNCHANGED otherVars

\* mutant: the check for no survivor is missing, the empty list goes through
\* the try block, the vectorizer raises and the fallback returns
NoSurvivorFallsBack ==
    /\ pc = "filtered"
    /\ filtered_characters = <<>>
    /\ Returned(SimpleMerge(FilteredChars), "fallback")
    /\ UNCHANGED <<max_characters, filtered_characters, cluster_labels, roster,
                   names, canonical>>
    /\ UNCHANGED otherVars

\* if not filtered_characters: return []
NoSurvivor ==
    /\ pc = "filtered"
    /\ filtered_characters = <<>>
    /\ Returned(<<>>, "filtered_out")
    /\ UNCHANGED <<max_characters, filtered_characters, cluster_labels, roster,
                   names, canonical>>
    /\ UNCHANGED otherVars

\* if len(filtered_characters) == 1
SingleSurvivor ==
    /\ pc = "filtered"
    /\ Len(filtered_characters) = 1
    /\ Returned(<<[FilteredChars[1] EXCEPT
                       !.char.aliases = <<FilteredChars[1].char.name>>]>>, "single")
    /\ UNCHANGED <<max_characters, filtered_characters, cluster_labels, roster,
                   names, canonical>>
    /\ UNCHANGED otherVars

FilteredNames == [i \in DOMAIN filtered_characters |-> FilteredChars[i].char.name]

\* steps 1 and 2 of the try block succeed
Cluster ==
    /\ pc = "filtered"
    /\ Len(filtered_characters) >= 2
    /\ \A i \in DOMAIN FilteredNames : Grams(VecText(FilteredNames[i])) # {}
    /\ \E l \in Labelings(FilteredNames) : cluster_labels' = l
    /\ pc' = "clustered"
    /\ UNCHANGED <<characters, max_characters, filtered_characters, path, merged,
                   roster, names, canonical>>
    /\ UNCHANGED otherVars

\* cluster_chars of one label
ClusterChars(cluster_id) ==
    LET InCluster(i) == cluster_labels[i] = cluster_id
        cluster_indices == SelectSeq([i \in DOMAIN cluster_labels |-> i], InCluster)
    IN  [k \in DOMAIN cluster_indices |-> FilteredChars[cluster_indices[k]]]

ClusterNames(cluster_id) ==
    {ClusterChars(cluster_id)[k].char.name : k \in DOMAIN ClusterChars(cluster_id)}

\* what merging one cluster can give: list(all_names) is any order of the names
MergeOutcomes(cluster_id) ==
    {MergeCluster(ClusterChars(cluster_id), name_list) :
        name_list \in Perms(ClusterNames(cluster_id))}

\* the possible merged_characters after the clusters 0..k-1
RECURSIVE MergedUpTo(_)
MergedUpTo(k) ==
    IF k = 0 THEN {<<>>}
    ELSE {Append(m, c) : <<m, c>> \in MergedUpTo(k - 1) \X MergeOutcomes(k - 1)}

\* step 3: for cluster_id in set(cluster_labels), in ascending order of the label
MergeClusters ==
    /\ pc = "clustered"
    /\ \E out \in MergedUpTo(Cardinality(Range(cluster_labels))) :
          Returned(out, "cluster")
    /\ UNCHANGED <<max_characters, filtered_characters, cluster_labels, roster,
                   names, canonical>>
    /\ UNCHANGED otherVars

\* the try block raises: except Exception -> _simple_merge(filtered_characters)
ClusterFails ==
    /\ pc = "filtered"
    /\ Len(filtered_characters) >= 2
    /\ Returned(SimpleMerge(FilteredChars), "fallback")
    /\ UNCHANGED <<max_characters, filtered_characters, cluster_labels, roster,
                   names, canonical>>
    /\ UNCHANGED otherVars

\* characters = characters[:max_characters]: a new list of the same dicts
Truncate ==
    /\ pc = "merged"
    /\ roster' = SubSeq(merged, 1, IF max_characters < Len(merged)
                                    THEN max_characters ELSE Len(merged))
    /\ pc' = "truncated"
    /\ UNCHANGED <<characters, max_characters, filtered_characters, cluster_labels,
                   path, merged, names, canonical>>
    /\ UNCHANGED otherVars

\* f"{i+1:03d}" for i + 1 < 1000
Pad3(n) ==
    LET d(k) == Ch(DigitChars, k + 1)
    IN  d(n \div 100) \o d((n \div 10) % 10) \o d(n % 10)

RECURSIVE SlugOf(_)
SlugOf(s) ==
    IF s = "" THEN ""
    ELSE LET c == IF Head(s) = " " THEN "_" ELSE Head(s)
         IN  (IF c \in SlugChars THEN c ELSE "") \o SlugOf(Tail(s))

CharacterId(name, i) ==
    LET name_slug == SlugOf(NormalizeName(name))
    IN  IF name_slug # "" THEN "char_" \o name_slug ELSE "char_" \o Pad3(i)

\* for i, char in enumerate(characters): char['character_id'] = ...; return
AssignIds ==
    /\ pc = "truncated"
    /\ roster' = [i \in DOMAIN roster |->
                     [roster[i] EXCEPT
                        !.char.character_id = CharacterId(roster[i].char.name, i)]]
    /\ characters' = WriteBack(roster')
    /\ pc' = "done"
    /\ UNCHANGED <<max_characters, filtered_characters, cluster_labels, path,
                   merged, names, canonical>>
    /\ UNCHANGED otherVars

Next ==
    \/ MergeEmpty
    \/ FilterNonCharacters
    \/ NoSurvivor
    \/ SingleSurvivor
    \/ Cluster
    \/ MergeClusters
    \/ ClusterFails
    \/ Truncate
    \/ AssignIds

Spec == Init /\ [][Next]_vars

(***************************************************************************)
(* _select_canonical_name on its own: any list of distinct names.          *)
(***************************************************************************)
NameLists ==
    {l \in UNION {[1..n -> NamePool] : n \in 1..MaxNames} :
        \A i, j \in DOMAIN l : i # j => l[i] # l[j]}

InitCanon ==
    /\ names \in NameLists
    /\ canonical = ""
    /\ pc = "call"
    /\ characters = <<>>
    /\ max_characters = 0
    /\ filtered_characters = <<>>
    /\ cluster_labels = <<>>
    /\ path = "none"
    /\ merged = <<>>
    /\ roster = <<>>
    /\ OtherIdle

SelectCanonical ==
    /\ pc = "call"
    /\ canonical' = SelectCanonicalName(names)
    /\ pc' = "returned"
    /\ UNCHANGED <<characters, max_characters, filtered_characters, cluster_labels,
                   path, merged, roster, names>>
    /\ UNCHANGED otherVars

NextCanon == SelectCanonical

SpecCanon == InitCanon /\ [][NextCanon]_vars

(***************************************************************************)
(* _normalize_name on its own: any short string over a small alphabet,     *)
(* normalized and the result normalized again.                             *)
(***************************************************************************)
NameAlphabet == {"A", "b", "1", " ", "\t", "-", "'", "_", "!"}

RECURSIVE Concat(_)
Concat(cs) == IF cs = <<>> THEN "" ELSE Head(cs) \o Concat(Tail(cs))

NameStrings == {Concat(cs) : cs \in UNION {[1..n -> NameAlphabet] : n \in 0..MaxNameLen}}

\* extract_characters is not running
ResolverIdle ==
    /\ characters = <<>>
    /\ max_characters = 0
    /\ filtered_characters = <<>>
    /\ cluster_labels = <<>>
    /\ path = "none"
    /\ merged = <<>>
    /\ roster = <<>>
    /\ names = <<>>
    /\ canonical = ""

InitNormalize ==
    /\ raw_name \in NameStrings
    /\ norm_name = ""
    /\ norm_again = ""
    /\ rejected = FALSE
    /\ pc = "call"
    /\ ResolverIdle
    /\ PayloadIdle
    /\ RestIdle

NormalizeCall ==
    /\ pc = "call"
    /\ norm_name' = NormalizeName(raw_name)
    /\ pc' = "normalized"
    /\ UNCHANGED <<raw_name, norm_again, rejected>>
    /\ UNCHANGED <<characters, max_characters, filtered_characters, cluster_labels,
                   path, merged, roster, names, canonical>>
    /\ UNCHANGED <<payloadVars, restVars>>

NormalizeAgain ==
    /\ pc = "normalized"
    /\ norm_again' = NormalizeName(norm_name)
    /\ pc' = "renormalized"
    /\ UNCHANGED <<raw_name, norm_name, rejected>>
    /\ UNCHANGED <<characters, max_characters, filtered_characters, cluster_labels,
                   path, merged, roster, names, canonical>>
    /\ UNCHANGED <<payloadVars, restVars>>

NextNormalize == NormalizeCall \/ NormalizeAgain

SpecNormalize == InitNormalize /\ [][NextNormalize]_vars

(***************************************************************************)
(* _is_non_character on its own: any short phrase of words.                *)
(***************************************************************************)
WordPool ==
    {"the", "Handler", "captain", "Lieutenant", "three", "Four", "2", "fool",
     "Bob", "Levi", "of", "who", "weakest"}

Phrases == {Join(ws) : ws \in UNION {[1..n -> WordPool] : n \in 1..MaxWords}}

InitFilter ==
    /\ raw_name \in Phrases
    /\ norm_name = ""
    /\ norm_again = ""
    /\ rejected = FALSE
    /\ pc = "call"
    /\ ResolverIdle
    /\ PayloadIdle
    /\ RestIdle

IsNonCharacterCall ==
    /\ pc = "call"
    /\ rejected' = IsNonCharacter(raw_name)
    /\ pc' = "classified"
    /\ UNCHANGED <<raw_name, norm_name, norm_again>>
    /\ UNCHANGED <<characters, max_characters, filtered_characters, cluster_labels,
                   path, merged, roster, names, canonical>>
    /\ UNCHANGED <<payloadVars, restVars>>

NextFilter == IsNonCharacterCall

SpecFilter == InitFilter /\ [][NextFilter]_vars

(***************************************************************************)
(* extract_characters on a payload of any shape.  The steps are those of   *)
(* Spec; what is followed here is which Python operation raises on a value *)
(* of the wrong type and where the exception is caught.  The content of    *)
(* the roster is not followed, only whether one is returned.               *)
(***************************************************************************)
\* len(v) raises TypeError
HasNoLen(v) == v.type \in {"null", "bool", "number"}

\* not v, for a value that has a len
IsFalsy(v) ==
    \/ v.type = "string" /\ v.val = ""
    \/ v.type = "array" /\ v.items = <<>>
    \/ v.type = "object" /\ DOMAIN v.fields = {}

\* for char in v: the items of a list, the keys of a dict, the characters of
\* a str
Iterate(v) ==
    IF v.type = "array" THEN v.items
    ELSE IF v.type = "object" THEN LET keys == Sorted(DOMAIN v.fields)
                                    IN  [i \in DOMAIN keys |-> JString(keys[i])]
    ELSE [i \in 1..Len(v.val) |-> JString(Ch(v.val, i))]

\* char['name'] raises TypeError or KeyError
NameLookupRaises(char) ==
    IF char.type # "object" THEN TRUE ELSE "name" \notin DOMAIN char.fields

\* name.lower() raises AttributeError
LowerRaises(v) == v.type # "string"

\* hash(v) raises TypeError
IsUnhashable(v) == v.type \in {"array", "object"}

\* the first pass raises at some element
FirstPassRaises(v) ==
    \E i \in DOMAIN Iterate(v) :
        IF NameLookupRaises(Iterate(v)[i]) THEN TRUE
        ELSE LowerRaises(Iterate(v)[i].fields.name)

\* _merge_cluster raises TypeError: len() of a description without a len, or
\* a role that cannot be a dict key
MergeClusterRaises(cluster_chars) ==
    /\ Len(cluster_chars) >= 2
    /\ \E k \in DOMAIN cluster_chars :
          LET f == cluster_chars[k].fields
          IN  \/ "description" \in DOMAIN f /\ HasNoLen(f.description)
              \/ "role" \in DOMAIN f /\ IsUnhashable(f.role)

Record(n, d, r) ==
    JObject([name |-> JString(n), description |-> JString(d), role |-> JString(r)])

\* the elements a payload list may hold
ItemPool ==
    { Record("Bob", "", "supporting"),
      Record("bob", "A healer who worries", "protagonist"),
      Record("Alice", "A healer", "supporting"),
      Record("idiot", "A hunter", "supporting"),
      JObject([description |-> JString("A healer"), role |-> JString("supporting")]),
      JObject([name |-> JNumber(7), description |-> JString("A healer"),
               role |-> JString("supporting")]),
      JObject([name |-> JString("Bob"), description |-> JNumber(5),
               role |-> JString("supporting")]),
      JObject([name |-> JString("bob"), description |-> JString("A healer"),
               role |-> JArray(<<>>)]),
      JString("Bob") }

\* what json.loads(content) may give
Payloads ==
    {JNull, JBool(TRUE), JNumber(3), JString(""), JString("Bob"), JObject(<<>>),
     JObject([characters |-> JArray(<<>>)])}
        \cup {JArray(items) : items \in UNION {[1..n -> ItemPool] : n \in 0..MaxItems}}

InitPayload ==
    /\ payload \in Payloads
    /\ outcome = "none"
    /\ max_characters \in 0..MaxChars
    /\ pc = "loaded"
    /\ characters = <<>>
    /\ filtered_characters = <<>>
    /\ cluster_labels = <<>>
    /\ path = "none"
    /\ merged = <<>>
    /\ roster = <<>>
    /\ names = <<>>
    /\ canonical = ""
    /\ NameIdle
    /\ RestIdle

\* an exception leaves extract_characters: except Exception: ... raise
Raise ==
    /\ outcome' = "raised"
    /\ pc' = "done"
    /\ UNCHANGED <<payload, characters, max_characters, filtered_characters,
                   cluster_labels, path, merged, roster, names, canonical>>
    /\ UNCHANGED <<nameVars, restVars>>

\* _merge_characters returns on path p
PayloadMerged(p) ==
    /\ path' = p
    /\ pc' = "merged"
    /\ UNCHANGED <<payload, outcome, characters, max_characters, filtered_characters,
                   cluster_labels, merged, roster, names, canonical>>
    /\ UNCHANGED <<nameVars, restVars>>

\* logger.info(f"... {len(characters)} ...") raises
PayloadCountRaises ==
    /\ pc = "loaded"
    /\ HasNoLen(payload)
    /\ Raise

PayloadCounted ==
    /\ pc = "loaded"
    /\ ~HasNoLen(payload)
    /\ pc' = "parsed"
    /\ UNCHANGED <<payload, outcome, characters, max_characters, filtered_characters,
                   cluster_labels, path, merged, roster, names, canonical>>
    /\ UNCHANGED <<nameVars, restVars>>

\* if not characters: return []
PayloadEmpty ==
    /\ pc = "parsed"
    /\ IsFalsy(payload)
    /\ PayloadMerged("empty")

\* the first pass raises, outside the try block
PayloadFirstPassRaises ==
    /\ pc = "parsed"
    /\ ~IsFalsy(payload)
    /\ FirstPassRaises(payload)
    /\ Raise

PayloadKeeps(i) == ~IsNonCharacter(Iterate(payload)[i].fields.name.val)

PayloadFirstPass ==
    /\ pc = "parsed"
    /\ ~IsFalsy(payload)
    /\ ~FirstPassRaises(payload)
    /\ filtered_characters' =
          SelectSeq([i \in DOMAIN Iterate(payload) |-> i], PayloadKeeps)
    /\ pc' = "filtered"
    /\ UNCHANGED <<payload, outcome, characters, max_characters, cluster_labels,
                   path, merged, roster, names, canonical>>
    /\ UNCHANGED <<nameVars, restVars>>

PayloadNoSurvivor ==
    /\ pc = "filtered"
    /\ filtered_characters = <<>>
    /\ PayloadMerged("filtered_out")

PayloadSingleSurvivor ==
    /\ pc = "filtered"
    /\ Len(filtered_characters) = 1
    /\ PayloadMerged("single")

PayloadFiltered ==
    [i \in DOMAIN filtered_characters |-> Iterate(payload)[filtered_characters[i]]]

PayloadNames == [i \in DOMAIN PayloadFiltered |-> PayloadFiltered[i].fields.name.val]

\* steps 1 and 2 of the try block succeed
PayloadCluster ==
    /\ pc = "filtered"
    /\ Len(filtered_characters) >= 2
    /\ \A i \in DOMAIN PayloadNames : Grams(VecText(PayloadNames[i])) # {}
    /\ \E l \in Labelings(PayloadNames) : cluster_labels' = l
    /\ pc' = "clustered"
    /\ UNCHANGED <<payload, outcome, characters, max_characters, filtered_characters,
                   path, merged, roster, names, canonical>>
    /\ UNCHANGED <<nameVars, restVars>>

PayloadClusterChars(cluster_id) ==
    LET InCluster(i) == cluster_labels[i] = cluster_id
        cluster_indices == SelectSeq([i \in DOMAIN cluster_labels |-> i], InCluster)
    IN  [k \in DOMAIN cluster_indices |-> PayloadFiltered[cluster_indices[k]]]

\* step 3; a TypeError of _merge_cluster is caught by except Exception and
\* _simple_merge, which reads only the names, returns
PayloadMergeClusters ==
    /\ pc = "clustered"
    /\ IF \E cluster_id \in Range(cluster_labels) :
             MergeClusterRaises(PayloadClusterChars(cluster_id))
       THEN PayloadMerged("fallback")
       ELSE PayloadMerged("cluster")

\* steps 1 and 2 of the try block raise
PayloadClusterFails ==
    /\ pc = "filtered"
    /\ Len(filtered_characters) >= 2
    /\ PayloadMerged("fallback")

\* characters[:max_characters], the ids (the names are str), return
PayloadReturn ==
    /\ pc = "merged"
    /\ outcome' = "returned"
    /\ pc' = "done"
    /\ UNCHANGED <<payload, characters, max_characters, filtered_characters,
                   cluster_labels, path, merged, roster, names, canonical>>
    /\ UNCHANGED <<nameVars, restVars>>

NextPayload ==
    \/ PayloadCountRaises
    \/ PayloadCounted
    \/ PayloadEmpty
    \/ PayloadFirstPassRaises
    \/ PayloadFirstPass
    \/ PayloadNoSurvivor
    \/ PayloadSingleSurvivor
    \/ PayloadCluster
    \/ PayloadMergeClusters
    \/ PayloadClusterFails
    \/ PayloadReturn

SpecPayload == InitPayload /\ [][NextPayload]_vars

(***************************************************************************)
(* Concurrent _merge_characters calls through one shared CharacterService  *)
(* (api/routes/characters.py builds one instance for every request), each  *)
(* call on a mention list of its own.  A call's locals are its own, the    *)
(* instance's tables are shared; the first pass is interleaved character   *)
(* by character, the rest of a call works on its locals only.  A call's    *)
(* characters stay as they were passed: what the call writes into its own  *)
(* dicts shows in the [obj, char] pairs it returns.                        *)
(***************************************************************************)
Threads == {"request_1", "request_2"}

ConcPool ==
    { Mention("friends", "A hunter", "supporting"),
      Mention("Bob and friends", "A healer who worries", "protagonist"),
      Mention("Bob", "A healer", "antagonist") }

ConcLists == UNION {[1..n -> ConcPool] : n \in 0..MaxOwnMentions}

\* the locals of a call that has just been entered
Entered(chars) ==
    [characters |-> chars, pc |-> "entered", i |-> 0, filtered_characters |-> <<>>,
     returned |-> <<>>]

InitConc ==
    /\ ResolverIdle
    /\ pc = "idle"
    /\ NameIdle
    /\ PayloadIdle
    /\ self_non_character_terms = non_character_terms
    /\ self_descriptive_patterns = descriptive_patterns
    /\ ScorerIdle
    /\ StoreIdle
    /\ calls \in [Threads -> {Entered(chars) : chars \in ConcLists}]

\* the filtered characters of a call as [obj, char] pairs
FilteredCharsOf(chars, indices) ==
    [k \in DOMAIN indices |-> [obj |-> indices[k], char |-> chars[indices[k]]]]

ClusterCharsOf(filtered, labels, cluster_id) ==
    LET InCluster(i) == labels[i] = cluster_id
        cluster_indices == SelectSeq([i \in DOMAIN labels |-> i], InCluster)
    IN  [k \in DOMAIN cluster_indices |-> filtered[cluster_indices[k]]]

MergeOutcomesOf(filtered, labels, cluster_id) ==
    LET cluster_chars == ClusterCharsOf(filtered, labels, cluster_id)
        all_names == {cluster_chars[k].char.name : k \in DOMAIN cluster_chars}
    IN  {MergeCluster(cluster_chars, name_list) : name_list \in Perms(all_names)}

RECURSIVE MergedUpToOf(_, _, _)
MergedUpToOf(filtered, labels, k) ==
    IF k = 0 THEN {<<>>}
    ELSE {Append(m, c) : <<m, c>> \in MergedUpToOf(filtered, labels, k - 1)
                                       \X MergeOutcomesOf(filtered, labels, k - 1)}

\* what the try/except of _merge_characters can return for two or more
\* survivors: the merged clusters of a labelling, or the fallback
TryMerge(filtered) ==
    LET name_list == [i \in DOMAIN filtered |-> filtered[i].char.name]
    IN  {SimpleMerge(filtered)}
        \cup (IF \A i \in DOMAIN name_list : Grams(VecText(name_list[i])) # {}
              THEN UNION {MergedUpToOf(filtered, l, Cardinality(Range(l))) :
                             l \in Labelings(name_list)}
              ELSE {})

\* _merge_characters on a list when no other call runs on the instance
MergeCharactersAlone(chars) ==
    LET Keeps(i) == ~IsNonCharacter(chars[i].name)
        filtered == FilteredCharsOf(chars, SelectSeq([i \in DOMAIN chars |-> i], Keeps))
    IN  IF chars = <<>> \/ filtered = <<>> THEN {<<>>}
        ELSE IF Len(filtered) = 1
        THEN {<<[filtered[1] EXCEPT !.char.aliases = <<filtered[1].char.name>>]>>}
        ELSE TryMerge(filtered)

Locals(t, c) ==
    /\ calls' = [calls EXCEPT ![t] = c]
    /\ UNCHANGED <<resolverVars, nameVars, payloadVars, scorerVars, storeVars>>

ReadsTables == UNCHANGED <<self_non_character_terms, self_descriptive_patterns>>

\* if not characters: return []
ConcEmpty(t) ==
    /\ calls[t].pc = "entered"
    /\ calls[t].characters = <<>>
    /\ Locals(t, [calls[t] EXCEPT !.pc = "returned"])
    /\ ReadsTables

\* filtered_characters = []; for char in characters
ConcFirstPass(t) ==
    /\ calls[t].pc = "entered"
    /\ calls[t].characters # <<>>
    /\ Locals(t, [calls[t] EXCEPT !.pc = "first_pass", !.i = 1])
    /\ ReadsTables

\* the call's locals after the loop body for characters[i]
FirstPassStep(c) ==
    IF IsNonCharacterOn(self_non_character_terms, self_descriptive_patterns,
                        c.characters[c.i].name)
    THEN [c EXCEPT !.i = c.i + 1]
    ELSE [c EXCEPT !.i = c.i + 1,
                   !.filtered_characters = Append(c.filtered_characters, c.i)]

\* mutant: a rejected name is cached in the shared blacklist
ConcFilterCaching(t) ==
    /\ calls[t].pc = "first_pass"
    /\ calls[t].i <= Len(calls[t].characters)
    /\ Locals(t, FirstPassStep(calls[t]))
    /\ self_non_character_terms' =
          IF FirstPassStep(calls[t]).filtered_characters = calls[t].filtered_characters
          THEN self_non_character_terms
                  \cup {NormalizeName(calls[t].characters[calls[t].i].name)}
          ELSE self_non_character_terms
    /\ UNCHANGED self_descriptive_patterns

\* one turn of the first pass: if not self._is_non_character(char['name'])
ConcFilter(t) ==
    /\ calls[t].pc = "first_pass"
    /\ calls[t].i <= Len(calls[t].characters)
    /\ Locals(t, FirstPassStep(calls[t]))
    /\ ReadsTables

\* the first pass of the call is over
FirstPassDone(t) ==
    /\ calls[t].pc = "first_pass"
    /\ calls[t].i > Len(calls[t].characters)

\* if not filtered_characters: return []
ConcNoSurvivor(t) ==
    /\ FirstPassDone(t)
    /\ calls[t].filtered_characters = <<>>
    /\ Locals(t, [calls[t] EXCEPT !.pc = "returned"])
    /\ ReadsTables

\* if len(filtered_characters) == 1
ConcSingleSurvivor(t) ==
    /\ FirstPassDone(t)
    /\ Len(calls[t].filtered_characters) = 1
    /\ LET only == FilteredCharsOf(calls[t].characters, calls[t].filtered_characters)[1]
       IN  Locals(t, [calls[t] EXCEPT
                         !.pc = "returned",
                         !.returned = <<[only EXCEPT !.char.aliases = <<only.char.name>>]>>])
    /\ ReadsTables

\* the try block and its except, on the call's own list
ConcMerge(t) ==
    /\ FirstPassDone(t)
    /\ Len(calls[t].filtered_characters) >= 2
    /\ \E out \in TryMerge(FilteredCharsOf(calls[t].characters,
                                            calls[t].filtered_characters)) :
          Locals(t, [calls[t] EXCEPT !.pc = "returned", !.returned = out])
    /\ ReadsTables

NextConc ==
    \E t \in Threads :
        \/ ConcEmpty(t)
        \/ ConcFirstPass(t)
        \/ ConcFilter(t)
        \/ ConcNoSurvivor(t)
        \/ ConcSingleSurvivor(t)
        \/ ConcMerge(t)

SpecConc == InitConc /\ [][NextConc]_vars

(***************************************************************************)
(* _are_same_character on its own: any two mention dicts of a pool.        *)
(***************************************************************************)
ScorerNames ==
    {"Shin", "Shinei Nouzen", "Bob", "Al Smith", "Albert Jones", "Jon", "John",
     "An(xyz)na", "Anna", "Levi", "",
     "aaaaaaaaaaaaaaaaabcd x", "aaaaaaaaaaaaaaaaaefg y"}

ScorerDescriptions == {"", "A friend of Bob", "A friend of Rob"}

\* dicts with both keys, and one without a name
ScorerPool ==
    {[name |-> n, description |-> d] : n \in ScorerNames, d \in ScorerDescriptions}
        \cup {[description |-> "A healer"]}

InitScorer ==
    /\ mention1 \in ScorerPool
    /\ mention2 \in ScorerPool
    /\ is_same = FALSE
    /\ pc = "call"
    /\ ResolverIdle
    /\ NameIdle
    /\ PayloadIdle
    /\ ServiceIdle
    /\ StoreIdle

AreSameCharacterCall ==
    /\ pc = "call"
    /\ is_same' = AreSameCharacter(mention1, mention2)
    /\ pc' = "compared"
    /\ UNCHANGED <<mention1, mention2>>
    /\ UNCHANGED <<characters, max_characters, filtered_characters, cluster_labels,
                   path, merged, roster, names, canonical>>
    /\ UNCHANGED <<nameVars, payloadVars, serviceVars, storeVars>>

NextScorer == AreSameCharacterCall

SpecScorer == InitScorer /\ [][NextScorer]_vars

(***************************************************************************)
(* CharacterCache and the routes of api/routes/characters.py that use it. *)
(* The route handlers are async functions that never await, so each is     *)
(* served in one step.  A file holds the JSON document json.dump wrote, or *)
(* what an interrupted write left of it.  Python values carry their type   *)
(* (py), JSON values theirs (type): json.dump and json.load convert.       *)
(***************************************************************************)
PyNone == [py |-> "NoneType"]
PyBool(b) == [py |-> "bool", val |-> b]
PyInt(n) == [py |-> "int", val |-> n]
PyStr(s) == [py |-> "str", val |-> s]
PyList(items) == [py |-> "list", items |-> items]
PyDict(fields) == [py |-> "dict", fields |-> fields]

\* json.dump(value): the JSON document of a Python value
RECURSIVE DumpJson(_)
DumpJson(v) ==
    CASE v.py = "NoneType" -> JNull
      [] v.py = "bool" -> JBool(v.val)
      [] v.py = "int" -> JNumber(v.val)
      [] v.py = "str" -> JString(v.val)
      [] v.py = "list" -> JArray([i \in DOMAIN v.items |-> DumpJson(v.items[i])])
      [] v.py = "dict" -> JObject([k \in DOMAIN v.fields |-> DumpJson(v.fields[k])])

\* json.load(f): the Python value of a JSON document
RECURSIVE LoadJson(_)
LoadJson(j) ==
    CASE j.type = "null" -> PyNone
      [] j.type = "bool" -> PyBool(j.val)
      [] j.type = "number" -> PyInt(j.val)
      [] j.type = "string" -> PyStr(j.val)
      [] j.type = "array" -> PyList([i \in DOMAIN j.items |-> LoadJson(j.items[i])])
      [] j.type = "object" -> PyDict([k \in DOMAIN j.fields |-> LoadJson(j.fields[k])])

\* the content of a file that a failed write left incomplete, and of a text file
Truncated == [type |-> "truncated"]
TextFile(n) == [type |-> "text", length |-> n]

\* str(uuid.uuid4()) of three uploads
DocumentIds == {"0a1b", "2c3d", "4e5f"}

\* self.cache_dir / f"{document_id}_characters.json", cache_dir = "data/cache"
GetCachePath(document_id) == "data/cache/" \o document_id \o "_characters.json"

\* upload_dir / f"{document_id}_chunks.txt"
ChunksPath(document_id) == "data/uploads/" \o document_id \o "_chunks.txt"

\* a character dict as extract_characters and the personality loop leave it
PyCharacter(id, n, personality) ==
    PyDict([name |-> PyStr(n), description |-> PyStr("A healer"),
            role |-> PyStr("supporting"), aliases |-> PyList(<<PyStr(n)>>),
            character_id |-> PyStr(id), personality |-> personality])

Personality == PyDict([summary |-> PyStr("kind")])

\* the rosters an extraction can give
Rosters ==
    { PyList(<<>>),
      PyList(<<PyCharacter("char_bob", "Bob", Personality)>>),
      PyList(<<PyCharacter("char_alice", "Alice", PyNone),
               PyCharacter("char_bob", "Bob", Personality)>>) }

\* the chunk files the background processing of the uploads has written:
\* one long text, one short one, none for the third document
InitCache ==
    /\ files = [chunks_path \in {ChunksPath("0a1b"), ChunksPath("2c3d")} |->
                  IF chunks_path = ChunksPath("0a1b") THEN TextFile(2000) ELSE TextFile(40)]
    /\ request = [op |-> "none"]
    /\ response = [op |-> "none"]
    /\ extraction_ran = FALSE
    /\ ResolverIdle
    /\ pc = "idle"
    /\ NameIdle
    /\ PayloadIdle
    /\ ServiceIdle
    /\ ScorerIdle
    /\ StatusIdle
    /\ ChatIdle

\* the files after a write of content to a path
Written(fs, cache_path, content) ==
    [p \in DOMAIN fs \cup {cache_path} |-> IF p = cache_path THEN content ELSE fs[p]]

\* the document save_characters writes
CacheData(document_id, chars) ==
    PyDict([document_id |-> PyStr(document_id), characters |-> chars,
            character_count |-> PyInt(Len(chars.items))])

\* mutant: the roster is appended to the one already cached
SavedMerging(fs, document_id, chars) ==
    LET cache_path == GetCachePath(document_id)
        old == IF cache_path \in DOMAIN fs /\ fs[cache_path].type = "object"
               THEN LoadJson(fs[cache_path]).fields.characters.items ELSE <<>>
    IN  Written(fs, cache_path,
                DumpJson(CacheData(document_id, PyList(old \o chars.items))))

\* save_characters when open and json.dump succeed: the files after it
Saved(fs, document_id, chars) ==
    Written(fs, GetCachePath(document_id), DumpJson(CacheData(document_id, chars)))

\* save_characters: the files after it and what it returns; open(cache_path, 'w')
\* may raise (the file stays), json.dump may raise (the file stays truncated)
SaveOutcomes(fs, document_id, chars) ==
    { [files |-> Saved(fs, document_id, chars), ok |-> TRUE],
      [files |-> fs, ok |-> FALSE],
      [files |-> Written(fs, GetCachePath(document_id), Truncated), ok |-> FALSE] }

\* load_characters: None without a file or when json.load raises
Loaded(fs, document_id) ==
    LET cache_path == GetCachePath(document_id)
    IN  IF cache_path \notin DOMAIN fs THEN PyNone
        ELSE IF fs[cache_path].type = "truncated" THEN PyNone
        ELSE IF fs[cache_path].type # "object" THEN PyNone
        ELSE LET cache_data == LoadJson(fs[cache_path])
             IN  IF "characters" \in DOMAIN cache_data.fields
                 THEN cache_data.fields.characters
                 ELSE PyList(<<>>)

Core == UNCHANGED <<coreVars, statusVars, chatVars>>

\* character_cache.save_characters(document_id, characters) called directly
SaveCharacters ==
    \E document_id \in DocumentIds : \E chars \in Rosters :
    \E out \in SaveOutcomes(files, document_id, chars) :
        /\ files' = out.files
        /\ request' = [op |-> "save_characters", document_id |-> document_id,
                       characters |-> chars]
        /\ response' = [op |-> "save_characters", value |-> PyBool(out.ok)]
        /\ extraction_ran' = FALSE
        /\ Core

\* character_cache.load_characters(document_id) called directly
LoadCharacters ==
    \E document_id \in DocumentIds :
        /\ request' = [op |-> "load_characters", document_id |-> document_id]
        /\ response' = [op |-> "load_characters", value |-> Loaded(files, document_id)]
        /\ extraction_ran' = FALSE
        /\ UNCHANGED files
        /\ Core

\* bool(value) of a value load_characters returns
IsTruthy(v) == v.py = "list" /\ v.items # <<>>

GetRequest(document_id, force_refresh) ==
    [op |-> "extract_characters_get", document_id |-> document_id,
     force_refresh |-> force_refresh]

Success(document_id, chars) ==
    [op |-> "extract_characters_get", status_code |-> 200,
     document_id |-> document_id, characters |-> chars,
     total_found |-> Len(chars.items)]

HttpError(code) == [op |-> "extract_characters_get", status_code |-> code]

\* GET extract-characters/{document_id}: served from the cache
GetFromCache ==
    \E document_id \in DocumentIds :
        /\ IsTruthy(Loaded(files, document_id))
        /\ request' = GetRequest(document_id, FALSE)
        /\ response' = Success(document_id, Loaded(files, document_id))
        /\ extraction_ran' = FALSE
        /\ UNCHANGED files
        /\ Core

\* the cache is not used: force_refresh, or load_characters gave None or []
SkipsCache(document_id, force_refresh) ==
    force_refresh \/ ~IsTruthy(Loaded(files, document_id))

\* GET: no chunk file (404) or a text under 100 characters (400)
GetRejected ==
    \E document_id \in DocumentIds : \E force_refresh \in BOOLEAN :
        /\ SkipsCache(document_id, force_refresh)
        /\ request' = GetRequest(document_id, force_refresh)
        /\ IF ChunksPath(document_id) \notin DOMAIN files
           THEN response' = HttpError(404)
           ELSE /\ files[ChunksPath(document_id)].length < 100
                /\ response' = HttpError(400)
        /\ extraction_ran' = FALSE
        /\ UNCHANGED files
        /\ Core

CanExtract(document_id) ==
    /\ ChunksPath(document_id) \in DOMAIN files
    /\ files[ChunksPath(document_id)].length >= 100

\* GET: the extraction runs, its roster is saved (the result of
\* save_characters is not looked at) and returned
GetExtracts ==
    \E document_id \in DocumentIds : \E force_refresh \in BOOLEAN :
    \E chars \in Rosters :
    \E out \in SaveOutcomes(files, document_id, chars) :
        /\ SkipsCache(document_id, force_refresh)
        /\ CanExtract(document_id)
        /\ request' = GetRequest(document_id, force_refresh)
        /\ response' = Success(document_id, chars)
        /\ extraction_ran' = TRUE
        /\ files' = out.files
        /\ Core

\* GET: the extraction raises (500)
GetExtractionFails ==
    \E document_id \in DocumentIds : \E force_refresh \in BOOLEAN :
        /\ SkipsCache(document_id, force_refresh)
        /\ CanExtract(document_id)
        /\ request' = GetRequest(document_id, force_refresh)
        /\ response' = HttpError(500)
        /\ extraction_ran' = TRUE
        /\ UNCHANGED files
        /\ Core

\* the last suffix of a file name removed (Path.stem)
RECURSIVE Stem(_)
Stem(file_name) ==
    IF ~Contains(".", file_name) THEN file_name
    ELSE IF Ch(file_name, Len(file_name)) = "."
    THEN SubSeq(file_name, 1, Len(file_name) - 1)
    ELSE Stem(SubSeq(file_name, 1, Len(file_name) - 1))

StartsWith(s, prefix) == Len(prefix) <= Len(s) /\ SubSeq(s, 1, Len(prefix)) = prefix
EndsWith(s, suffix) ==
    Len(suffix) <= Len(s) /\ SubSeq(s, Len(s) - Len(suffix) + 1, Len(s)) = suffix

\* the names of cache_dir.glob("*.json"), cache_dir = data/cache/characters
Glob(fs, dir) ==
    {SubSeq(p, Len(dir) + 2, Len(p)) :
        p \in {q \in DOMAIN fs : /\ StartsWith(q, dir \o "/")
                                 /\ EndsWith(q, ".json")
                                 /\ ~Contains("/", SubSeq(q, Len(dir) + 2, Len(q)))}}

\* the list items of one cache file; a document without a readable cache
\* raises in the loop and is skipped
ListItems(fs, document_id) ==
    LET chars == Loaded(fs, document_id)
    IN  IF chars.py # "list" THEN <<>>
        ELSE [i \in DOMAIN chars.items |->
                 [id |-> chars.items[i].fields.character_id.val,
                  name |-> chars.items[i].fields.name.val,
                  document_id |-> document_id]]

RECURSIVE ListOf(_, _)
ListOf(fs, file_names) ==
    IF file_names = <<>> THEN <<>>
    ELSE ListItems(fs, Stem(Head(file_names))) \o ListOf(fs, Tail(file_names))

\* GET /characters: glob gives the files in any order
ListAllCharacters ==
    \E file_names \in Perms(Glob(files, "data/cache/characters")) :
        /\ request' = [op |-> "list_all_characters"]
        /\ response' = [op |-> "list_all_characters", items |-> ListOf(files, file_names)]
        /\ extraction_ran' = FALSE
        /\ UNCHANGED files
        /\ Core

NextCache ==
    \/ SaveCharacters
    \/ LoadCharacters
    \/ GetFromCache
    \/ GetRejected
    \/ GetExtracts
    \/ GetExtractionFails
    \/ ListAllCharacters

SpecCache == InitCache /\ [][NextCache]_vars

(***************************************************************************)
(* Uploads, process_document_background and the status endpoint.  The      *)
(* background task is a plain function run in the thread pool after the    *)
(* upload has returned: the status endpoint and the tasks of other uploads *)
(* are served between its statements.  The metadata of a document is the   *)
(* JSON file DocumentService writes under data/documents.                  *)
(***************************************************************************)
\* document_id = str(uuid.uuid4()) of two uploads
UploadIds == {"0a1b", "2c3d"}

\* self.storage_dir / f"{document_id}_metadata.json", storage_dir = "data/documents"
GetMetadataPath(document_id) == "data/documents/" \o document_id \o "_metadata.json"

\* upload_dir / f"{document_id}.pdf"
PdfPath(document_id) == "data/uploads/" \o document_id \o ".pdf"

\* class DocumentStatus(str, Enum)
DocumentStatus ==
    {"uploading", "processing", "extracting_text", "chunking", "indexing",
     "ready", "failed"}

\* the files after the unlink of some paths
Removed(fs, paths) == [p \in DOMAIN fs \ paths |-> fs[p]]

\* the DocumentMetadata create_document builds
NewMetadata(document_id) ==
    PyDict([document_id |-> PyStr(document_id), status |-> PyStr("uploading"),
            progress |-> PyInt(0),
            message |-> PyStr("File uploaded, starting processing..."),
            chunk_count |-> PyNone, error_message |-> PyNone])

\* get_document: None without a file or when loading it raises
GetDocument(fs, document_id) ==
    LET metadata_path == GetMetadataPath(document_id)
    IN  IF metadata_path \notin DOMAIN fs THEN PyNone
        ELSE IF fs[metadata_path].type # "object" THEN PyNone
        ELSE LoadJson(fs[metadata_path])

\* _save_metadata: open(metadata_path, 'w') may raise (the file stays) and
\* json.dump may raise (the file stays truncated)
SaveMetadata(fs, metadata) ==
    LET metadata_path == GetMetadataPath(metadata.fields.document_id.val)
    IN  { [files |-> Written(fs, metadata_path, DumpJson(metadata)), raised |-> FALSE],
          [files |-> fs, raised |-> TRUE],
          [files |-> Written(fs, metadata_path, Truncated), raised |-> TRUE] }

\* update_status: returns None, and changes nothing, when get_document gives
\* None; else sets status, progress, message and the kwargs that are fields of
\* the metadata, and saves
UpdateStatus(fs, document_id, status, progress, message, kwargs) ==
    LET metadata == GetDocument(fs, document_id)
    IN  IF metadata = PyNone THEN {[files |-> fs, raised |-> FALSE]}
        ELSE SaveMetadata(fs,
               PyDict([k \in DOMAIN metadata.fields |->
                         IF k = "status" THEN PyStr(status)
                         ELSE IF k = "progress" THEN PyInt(progress)
                         ELSE IF k = "message" THEN PyStr(message)
                         ELSE IF k \in DOMAIN kwargs THEN kwargs[k]
                         ELSE metadata.fields[k]]))

\* the status stored for a document: what get_document gives the status endpoint
StoredStatus(fs, document_id) ==
    LET metadata == GetDocument(fs, document_id)
    IN  IF metadata = PyNone THEN "not found" ELSE metadata.fields.status.val

InitStatus ==
    /\ tasks = [document_id \in UploadIds |-> "none"]
    /\ collection = {}
    /\ files = <<>>
    /\ request = [op |-> "none"]
    /\ response = [op |-> "none"]
    /\ extraction_ran = FALSE
    /\ ResolverIdle
    /\ pc = "idle"
    /\ NameIdle
    /\ PayloadIdle
    /\ ServiceIdle
    /\ ScorerIdle
    /\ ChatIdle

Goto(document_id, position) == tasks' = [tasks EXCEPT ![document_id] = position]

\* what the status actions leave alone
StatusFrame == UNCHANGED <<coreVars, chatVars, extraction_ran>>

\* a statement of the background task: the routes are not involved
InBackground == StatusFrame /\ UNCHANGED <<request, response>>

\* POST /upload: the PDF is saved, the record created with status UPLOADING
\* and the task queued; an exception removes the PDF and gives a 500
UploadDocument(document_id) ==
    /\ tasks[document_id] = "none"
    /\ request' = [op |-> "upload_document", document_id |-> document_id]
    /\ \E saved \in SaveMetadata(Written(files, PdfPath(document_id), TextFile(2000)),
                                 NewMetadata(document_id)) :
          IF saved.raised
          THEN /\ files' = Removed(saved.files, {PdfPath(document_id)})
               /\ response' = [op |-> "upload_document", status_code |-> 500]
               /\ Goto(document_id, "rejected")
          ELSE /\ files' = saved.files
               /\ response' = [op |-> "upload_document", status_code |-> 200,
                               status |-> "processing", document_id |-> document_id]
               /\ Goto(document_id, "queued")
    /\ UNCHANGED collection
    /\ StatusFrame

\* DocumentService(), TextExtractor(), RAGService(): outside the try block, so
\* an exception of a constructor ends the task
Construct(document_id) ==
    /\ tasks[document_id] = "queued"
    /\ \E raised \in BOOLEAN :
          Goto(document_id, IF raised THEN "raised" ELSE "update_extracting")
    /\ UNCHANGED <<files, collection>>
    /\ InBackground

\* a doc_service.update_status call inside the try block
TryUpdateStatus(document_id, position, status, progress, message, kwargs, next) ==
    /\ tasks[document_id] = position
    /\ \E updated \in UpdateStatus(files, document_id, status, progress, message, kwargs) :
          /\ files' = updated.files
          /\ Goto(document_id, IF updated.raised THEN "except" ELSE next)
    /\ UNCHANGED collection
    /\ InBackground

\* step 1: update_status(EXTRACTING, 20)
MarkExtracting(document_id) ==
    TryUpdateStatus(document_id, "update_extracting", "extracting_text", 20,
                    "Extracting text from PDF...", <<>>, "extract")

\* text_extractor.extract_from_pdf(pdf_path): returns or raises
ExtractFromPdf(document_id) ==
    /\ tasks[document_id] = "extract"
    /\ \E raised \in BOOLEAN :
          Goto(document_id, IF raised THEN "except" ELSE "update_chunking")
    /\ UNCHANGED <<files, collection>>
    /\ InBackground

\* step 2: update_status(CHUNKING, 50)
MarkChunking(document_id) ==
    TryUpdateStatus(document_id, "update_chunking", "chunking", 50,
                    "Creating text chunks...", <<>>, "chunk")

\* chunk_text and the write of the chunk file: open may raise, a write may
\* raise and leave the file incomplete
WriteChunks(document_id) ==
    /\ tasks[document_id] = "chunk"
    /\ \/ /\ files' = Written(files, ChunksPath(document_id), TextFile(2000))
          /\ Goto(document_id, "update_indexing")
       \/ /\ files' = files
          /\ Goto(document_id, "except")
       \/ /\ files' = Written(files, ChunksPath(document_id), Truncated)
          /\ Goto(document_id, "except")
    /\ UNCHANGED collection
    /\ InBackground

\* step 3: update_status(INDEXING, 75)
MarkIndexing(document_id) ==
    TryUpdateStatus(document_id, "update_indexing", "indexing", 75,
                    "Indexing in vector store...", <<>>, "index")

\* rag_service.add_document_chunks: a batch that fails re-raises, the batches
\* added before it stay in the collection
AddDocumentChunks(document_id) ==
    /\ tasks[document_id] = "index"
    /\ \/ /\ collection' = collection \cup {document_id}
          /\ Goto(document_id, "update_ready")
       \/ /\ collection' = collection \cup {document_id}
          /\ Goto(document_id, "except")
       \/ /\ collection' = collection
          /\ Goto(document_id, "except")
    /\ UNCHANGED files
    /\ InBackground

\* step 4: update_status(READY, 100, chunk_count=len(chunks))
MarkReady(document_id) ==
    TryUpdateStatus(document_id, "update_ready", "ready", 100,
                    "Document ready for character extraction and chat!",
                    [chunk_count |-> PyInt(3)], "returned")

\* except Exception: update_status(FAILED, 0, error_message=str(e)), outside
\* any try block, so an exception of it ends the task
MarkFailed(document_id) ==
    /\ tasks[document_id] = "except"
    /\ \E updated \in UpdateStatus(files, document_id, "failed", 0, "Processing failed",
                                   [error_message |-> PyStr("error")]) :
          /\ files' = updated.files
          /\ Goto(document_id, IF updated.raised THEN "raised" ELSE "cleanup")
    /\ UNCHANGED collection
    /\ InBackground

\* the cleanup: the PDF and the chunk file are unlinked, an exception of an
\* unlink is logged and ends the cleanup
Cleanup(document_id) ==
    /\ tasks[document_id] = "cleanup"
    /\ \/ files' = Removed(files, {PdfPath(document_id), ChunksPath(document_id)})
       \/ files' = Removed(files, {PdfPath(document_id)})
       \/ files' = files
    /\ Goto(document_id, "returned")
    /\ UNCHANGED collection
    /\ InBackground

\* the statements of one run of process_document_background
ProcessDocumentBackground(document_id) ==
    \/ Construct(document_id)
    \/ MarkExtracting(document_id)
    \/ ExtractFromPdf(document_id)
    \/ MarkChunking(document_id)
    \/ WriteChunks(document_id)
    \/ MarkIndexing(document_id)
    \/ AddDocumentChunks(document_id)
    \/ MarkReady(document_id)
    \/ MarkFailed(document_id)
    \/ Cleanup(document_id)

\* GET /documents/{document_id}/status
GetDocumentStatus(document_id) ==
    LET metadata == GetDocument(files, document_id)
    IN  /\ request' = [op |-> "get_document_status", document_id |-> document_id]
        /\ response' =
             IF metadata = PyNone
             THEN [op |-> "get_document_status", status_code |-> 404]
             ELSE [op |-> "get_document_status", status_code |-> 200,
                   status |-> metadata.fields.status.val,
                   progress |-> metadata.fields.progress.val,
                   is_ready |-> metadata.fields.status.val = "ready"]
        /\ UNCHANGED <<files, tasks, collection>>
        /\ StatusFrame

NextStatus ==
    \E document_id \in UploadIds :
        \/ UploadDocument(document_id)
        \/ Construct(document_id)
        \/ MarkExtracting(document_id)
        \/ ExtractFromPdf(document_id)
        \/ MarkChunking(document_id)
        \/ WriteChunks(document_id)
        \/ MarkIndexing(document_id)
        \/ AddDocumentChunks(document_id)
        \/ MarkReady(document_id)
        \/ MarkFailed(document_id)
        \/ Cleanup(document_id)
        \/ GetDocumentStatus(document_id)

\* the thread pool runs every queued task: no statement of a task waits forever
SpecStatus ==
    /\ InitStatus
    /\ [][NextStatus]_vars
    /\ \A document_id \in UploadIds : WF_vars(ProcessDocumentBackground(document_id))

(***************************************************************************)
(* ChatSessionService and the chat_sessions table.  A row is keyed by its  *)
(* session_id, a unique column; conversation_history holds the JSON text   *)
(* of the messages.  Each call runs on the database session of its own     *)
(* request; the calls are made one after the other.                        *)
(***************************************************************************)
\* the document ids of two default books and the ids of two of their characters
\* (extract_characters gives "Char Ron" the id char_char_ron)
ChatDocumentIds == {"default_hp", "default_hp_char"}
ChatCharacterIds == {"char_ron", "char_char_ron"}
ChatPairs == ChatDocumentIds \X ChatCharacterIds

UserMessages == {"Hi", "Bye"}
AssistantResponses == {"Hello"}

\* session_id = f"{document_id}_{character_id}"
SessionId(document_id, character_id) == document_id \o "_" \o character_id

\* {"role": ..., "content": ...}
Message(role, content) == PyDict([role |-> PyStr(role), content |-> PyStr(content)])

\* set_messages: json.dumps(messages)
SetMessages(messages) == DumpJson(PyList(messages))

\* get_messages: json.loads(self.conversation_history), [] when it raises
GetMessages(chat_session) ==
    IF chat_session.conversation_history.type = "array"
    THEN LoadJson(chat_session.conversation_history).items
    ELSE <<>>

\* db.query(ChatSession).filter(ChatSession.session_id == session_id).first()
HasSession(table, session_id) == session_id \in DOMAIN table

\* the table after db.add(chat_session) or an update of the row, and after
\* db.delete(chat_session)
WithRow(table, chat_session) ==
    [id \in DOMAIN table \cup {chat_session.session_id} |->
        IF id = chat_session.session_id THEN chat_session ELSE table[id]]

WithoutRow(table, session_id) == [id \in DOMAIN table \ {session_id} |-> table[id]]

\* get_or_create_session: the table after it
GetOrCreateSession(table, document_id, character_id, character_name) ==
    LET session_id == SessionId(document_id, character_id)
    IN  IF HasSession(table, session_id) THEN table
        ELSE WithRow(table, [session_id |-> session_id, document_id |-> document_id,
                             character_id |-> character_id,
                             character_name |-> character_name,
                             conversation_history |-> JArray(<<>>)])

\* get_conversation_history
GetConversationHistory(table, document_id, character_id) ==
    LET session_id == SessionId(document_id, character_id)
    IN  IF HasSession(table, session_id) THEN GetMessages(table[session_id]) ELSE <<>>

\* save_message when its commits succeed: the table after it
SavedMessage(table, document_id, character_id, character_name, user_message, assistant_response) ==
    LET created == GetOrCreateSession(table, document_id, character_id, character_name)
        chat_session == created[SessionId(document_id, character_id)]
    IN  WithRow(created,
                [chat_session EXCEPT !.conversation_history =
                    SetMessages(GetMessages(chat_session)
                                \o <<Message("user", user_message),
                                     Message("assistant", assistant_response)>>)])

InitChat ==
    /\ chat_sessions = <<>>
    /\ request = [op |-> "none"]
    /\ response = [op |-> "none"]
    /\ files = <<>>
    /\ extraction_ran = FALSE
    /\ ResolverIdle
    /\ pc = "idle"
    /\ NameIdle
    /\ PayloadIdle
    /\ ServiceIdle
    /\ ScorerIdle
    /\ StatusIdle

ChatFrame == UNCHANGED <<coreVars, statusVars, files, extraction_ran>>

ChatRequest(op, document_id, character_id) ==
    [op |-> op, document_id |-> document_id, character_id |-> character_id]

\* ChatSessionService.save_message: the commit of get_or_create_session or the
\* commit of the new history may raise; the row a first commit created stays
SaveMessage ==
    \E document_id \in ChatDocumentIds : \E character_id \in ChatCharacterIds :
    \E user_message \in UserMessages : \E assistant_response \in AssistantResponses :
        LET created == GetOrCreateSession(chat_sessions, document_id, character_id, "Ron")
        IN  /\ Len(GetConversationHistory(chat_sessions, document_id, character_id))
                 < 2 * MaxExchanges
            /\ request' = [op |-> "save_message", document_id |-> document_id,
                           character_id |-> character_id, user_message |-> user_message,
                           assistant_response |-> assistant_response]
            /\ \/ /\ chat_sessions' = SavedMessage(chat_sessions, document_id, character_id,
                                                   "Ron", user_message, assistant_response)
                  /\ response' = [op |-> "save_message", raised |-> FALSE]
               \/ /\ chat_sessions' = created
                  /\ response' = [op |-> "save_message", raised |-> TRUE]
               \/ /\ chat_sessions' = chat_sessions
                  /\ response' = [op |-> "save_message", raised |-> TRUE]
            /\ ChatFrame

\* ChatSessionService.clear_session: True when a row was deleted
ClearSession ==
    \E document_id \in ChatDocumentIds : \E character_id \in ChatCharacterIds :
        LET session_id == SessionId(document_id, character_id)
        IN  /\ request' = ChatRequest("clear_session", document_id, character_id)
            /\ \/ /\ chat_sessions' = WithoutRow(chat_sessions, session_id)
                  /\ response' = [op |-> "clear_session", raised |-> FALSE,
                                  value |-> HasSession(chat_sessions, session_id)]
               \/ /\ HasSession(chat_sessions, session_id)
                  /\ chat_sessions' = chat_sessions
                  /\ response' = [op |-> "clear_session", raised |-> TRUE]
            /\ ChatFrame

\* ChatSessionService.get_conversation_history
LoadHistory ==
    \E document_id \in ChatDocumentIds : \E character_id \in ChatCharacterIds :
        /\ request' = ChatRequest("get_conversation_history", document_id, character_id)
        /\ response' = [op |-> "get_conversation_history", raised |-> FALSE,
                        value |-> GetConversationHistory(chat_sessions, document_id,
                                                         character_id)]
        /\ UNCHANGED chat_sessions
        /\ ChatFrame

NextChat == SaveMessage \/ ClearSession \/ LoadHistory

SpecChat == InitChat /\ [][NextChat]_vars

(***************************************************************************)
(* Properties.                                                             *)
(***************************************************************************)
Aliases(c) == Range(c.char.aliases)

\* the surviving mentions (indices into characters)
Survivors == Range(filtered_characters)

\* the characters of a list whose aliases hold the name
Holders(list, name) == {j \in DOMAIN list : name \in Aliases(list[j])}

\* the surviving mentions folded into a character
Folded(c) == {i \in Survivors : characters[i].name \in Aliases(c)}

\* the position in the input of a character's earliest mention
FirstPos(c) == CHOOSE i \in Folded(c) : \A j \in Folded(c) : i <= j

\* the aliases of a character in the order their mentions were encountered
DiscoveryNames(c) ==
    LET IsFirst(i) == /\ characters[i].name \in Aliases(c)
                      /\ \A j \in Survivors : j < i => characters[j].name # characters[i].name
        idx == SelectSeq(filtered_characters, IsFirst)
    IN  [k \in DOMAIN idx |-> characters[idx[k]].name]

Merged == pc \in {"merged", "truncated", "done"}

\* C1: the alias sets of distinct characters returned by _merge_characters
\* (and of the roster built from them) are pairwise disjoint
C1_AliasSetsDisjoint ==
    /\ \A i, j \in DOMAIN merged : i # j => Aliases(merged[i]) \cap Aliases(merged[j]) = {}
    /\ \A i, j \in DOMAIN roster : i # j => Aliases(roster[i]) \cap Aliases(roster[j]) = {}

\* C1 case: the clustering path returned several characters for an input in
\* which one raw name is mentioned twice
C1_Witness ==
    /\ pc = "merged" /\ path = "cluster" /\ Len(merged) >= 2
    /\ \E i, j \in Survivors : i # j /\ characters[i].name = characters[j].name

\* C2 as stated: every surviving mention has its name in the alias set of
\* exactly one character of the returned roster
C2_EverySurvivorInRoster ==
    pc = "done" =>
        \A i \in Survivors : Cardinality(Holders(roster, characters[i].name)) = 1

\* C2 amended: every surviving mention has its name in the alias set of exactly
\* one merged character; the roster is the first max_characters merged
\* characters, so the name is in that one character of the roster when it is
\* among the first max_characters and in no character of the roster otherwise
C2_SurvivorInOneMergedCharacter ==
    /\ Merged =>
          \A i \in Survivors : Cardinality(Holders(merged, characters[i].name)) = 1
    /\ pc = "done" =>
          \A i \in Survivors :
              Holders(roster, characters[i].name) =
                  {h \in Holders(merged, characters[i].name) : h <= max_characters}

\* C2 case: the clustering path merged more characters than max_characters
\* allows, and the roster keeps some and drops others
C2_Witness ==
    /\ pc = "done" /\ path = "cluster"
    /\ max_characters >= 1 /\ Len(merged) > max_characters
    /\ \E i \in Survivors : Holders(roster, characters[i].name) = {}

\* C3: every returned character has a non-empty alias list that holds its name
C3_AliasesHoldName ==
    /\ \A j \in DOMAIN merged :
          merged[j].char.aliases # <<>> /\ merged[j].char.name \in Aliases(merged[j])
    /\ \A j \in DOMAIN roster :
          roster[j].char.aliases # <<>> /\ roster[j].char.name \in Aliases(roster[j])

\* C3 case: the clustering path returned a merged cluster and a one-member cluster
C3_Witness ==
    /\ pc = "done" /\ path = "cluster"
    /\ \E j \in DOMAIN roster : Len(roster[j].char.aliases) >= 2
    /\ \E j \in DOMAIN roster : roster[j].obj # 0

\* the names the LLM may emit that the non-character filter rejects
RejectedNames == {n \in {m.name : m \in MentionPool} : IsNonCharacter(n)}

\* C4: no name that the non-character filter rejects is the name or an alias
\* of a returned character
C4_NoNonCharacterReturned ==
    /\ \A j \in DOMAIN merged :
          /\ merged[j].char.name \notin RejectedNames
          /\ Aliases(merged[j]) \cap RejectedNames = {}
    /\ \A j \in DOMAIN roster :
          /\ roster[j].char.name \notin RejectedNames
          /\ Aliases(roster[j]) \cap RejectedNames = {}

\* C4 case: the input holds a rejected name between other mentions and the
\* fallback path returned several characters
C4_Witness ==
    /\ pc = "done" /\ path = "fallback" /\ Len(roster) >= 2
    /\ \E i \in DOMAIN characters : characters[i].name \in RejectedNames

\* C5 as stated: the roster is the first max_characters clusters in the order
\* of the position in the input of each cluster's earliest mention
C5_DiscoveryOrder ==
    pc = "done" =>
        /\ Len(roster) = Min(max_characters, Len(merged))
        /\ \A j \in DOMAIN roster :
              /\ Aliases(roster[j]) = Aliases(merged[j])
              /\ \A k \in DOMAIN merged :
                    j < k => FirstPos(merged[j]) < FirstPos(merged[k])

C7_FirstEncounteredWins ==
    (Merged /\ path = "cluster") =>
        \A j \in DOMAIN merged :
            merged[j].char.name = SelectCanonicalName(DiscoveryNames(merged[j]))

\* C8 as stated: with no full name among the aliases, the canonical name is
\* the longest single-word alias longer than 2 characters, title word or
\* not; an alias of 1 or 2 characters is selected only when there is no longer
\* single-word alias and no title-pattern alias
C8_LongestSingleWord ==
    LET Single(n) == ~Contains(" ", n)
    IN  (pc = "returned" /\ \A n \in Range(names) : ~IsFullName(n)) =>
            /\ (\E n \in Range(names) : Single(n) /\ Len(n) > 2) =>
                  /\ Single(canonical) /\ Len(canonical) > 2
                  /\ \A n \in Range(names) : Single(n) => Len(n) <= Len(canonical)
            /\ (Single(canonical) /\ Len(canonical) <= 2) =>
                  /\ \A n \in Range(names) : Single(n) => Len(n) <= Len(canonical)
                  /\ \A n \in Range(names) : ~IsTitlePattern(n)

\* C8 amended: with no full name outside the title patterns among the
\* aliases, the canonical name is the first longest alias among those that
\* match no title pattern, whatever its length; an alias that matches a title
\* pattern is selected only when all do, and is then the first of the list
C8_LongestUntitledAlias ==
    LET Untitled(n) == ~IsTitlePattern(n)
    IN  (pc = "returned" /\ \A n \in Range(names) : ~(IsFullName(n) /\ Untitled(n))) =>
            IF \E n \in Range(names) : Untitled(n)
            THEN \E i \in DOMAIN names :
                    /\ canonical = names[i]
                    /\ Untitled(names[i])
                    /\ \A j \in DOMAIN names :
                          Untitled(names[j]) => Len(names[j]) <= Len(names[i])
                    /\ \A j \in 1..(i - 1) :
                          Untitled(names[j]) => Len(names[j]) < Len(names[i])
            ELSE canonical = names[1]

\* C8 case: a 2-character alias is selected although a title-word alias is
\* longer
C8_Witness ==
    /\ pc = "returned"
    /\ Len(canonical) <= 2
    /\ \E n \in Range(names) : IsTitlePattern(n) /\ ~Contains(" ", n)

\* a description of maximal length among the mentions folded into a character
IsLongestDescription(c) ==
    \E i \in Folded(c) :
        /\ c.char.description = characters[i].description
        /\ \A k \in Folded(c) :
              Len(characters[k].description) <= Len(characters[i].description)

IsBestRole(c) ==
    /\ \E i \in Folded(c) : c.char.role = characters[i].role
    /\ \A k \in Folded(c) : role_priority(characters[k].role) <= role_priority(c.char.role)

RECURSIVE AlnumSlug(_)
AlnumSlug(s) ==
    IF s = "" THEN ""
    ELSE (IF Head(s) = " " THEN "_"
          ELSE IF Head(s) \in WordChars \ {"_"} THEN Head(s)
          ELSE "") \o AlnumSlug(Tail(s))

\* C11 as stated: the character_id of every character of the roster is 'char_'
\* followed by the normalized name with spaces replaced by underscores and
\* every other non-alphanumeric character stripped, and is 'char_' plus the
\* 3-digit 1-based position only when that slug is empty
C11_IdFromCanonicalName ==
    pc = "done" =>
        \A j \in DOMAIN roster :
            LET slug == AlnumSlug(NormalizeName(roster[j].char.name))
            IN  roster[j].char.character_id =
                    IF slug # "" THEN "char_" \o slug ELSE "char_" \o Pad3(j)

\* C12: for an empty mention list and for a mention list whose every name the
\* filter rejects, the resolver never enters clustering or the fallback and
\* returns the empty list, and so does extract_characters
C12_EmptyRosterWithoutClustering ==
    (\A i \in DOMAIN characters : characters[i].name \in RejectedNames) =>
        /\ pc # "clustered"
        /\ path \in {"none", "empty", "filtered_out"}
        /\ cluster_labels = <<>>
        /\ merged = <<>>
        /\ roster = <<>>
        /\ pc \in {"merged", "truncated", "done"} => path \in {"empty", "filtered_out"}

\* C12 case: a list of several mentions, all rejected, was resolved to the end
C12_Witness ==
    /\ pc = "done" /\ path = "filtered_out"
    /\ Len(characters) >= 2 /\ max_characters >= 1
    /\ roster = <<>>

\* _normalize_name of the names the LLM may emit
PoolNormalized == [n \in {m.name : m \in MentionPool} |-> NormalizeName(n)]

\* C13: when the try block fails, the resolver returns the fallback list: each
\* surviving mention is in exactly one character, two surviving mentions are
\* in the same character exactly when their normalized names are identical,
\* and every character is the first mention of its group with the raw names
\* of the group as aliases
C13_FallbackGroupsByNormalizedName ==
    (Merged /\ path = "fallback") =>
        /\ \A i \in Survivors : Cardinality(Holders(merged, characters[i].name)) = 1
        /\ \A i, j \in Survivors :
              (Holders(merged, characters[i].name) = Holders(merged, characters[j].name))
                  <=> PoolNormalized[characters[i].name] = PoolNormalized[characters[j].name]
        /\ \A k \in DOMAIN merged :
              /\ Folded(merged[k]) # {}
              /\ merged[k].obj = FirstPos(merged[k])
              /\ Aliases(merged[k]) = {characters[i].name : i \in Folded(merged[k])}
        /\ \A k, l \in DOMAIN merged : k < l => FirstPos(merged[k]) < FirstPos(merged[l])

\* C13 case: the fallback grouped two different raw names with one normalized
\* name and left another mention on its own
C13_Witness ==
    /\ Merged /\ path = "fallback"
    /\ Len(merged) >= 2
    /\ \E k \in DOMAIN merged : Cardinality(Aliases(merged[k])) >= 2

\* C15 as stated: no step of _merge_characters, on any path, changes a field
\* of an input mention or adds one to it
C15_MentionsUnmodified ==
    [][(pc \in {"parsed", "filtered", "clustered"}) => (characters' = characters)]_vars

\* letters and digits
AlnumChars == WordChars \ {"_"}

\* the name without the punctuation other than hyphen and apostrophe
RECURSIVE WithoutPunctuation(_)
WithoutPunctuation(s) ==
    IF s = "" THEN ""
    ELSE (IF Head(s) \in AlnumChars \cup {"-", "'"} \/ IsSpace(Head(s))
          THEN Head(s) ELSE "") \o WithoutPunctuation(Tail(s))

\* C17 as stated: normalize returns the lowercased name without its
\* punctuation other than hyphen and apostrophe, without leading and trailing
\* whitespace and with every run of whitespace collapsed to one space; the
\* result holds only letters, digits, hyphens, apostrophes and single spaces,
\* and normalize("") = ""
C17_NormalizeResult ==
    pc = "normalized" =>
        /\ norm_name = Join(Split(WithoutPunctuation(Lower(raw_name))))
        /\ CharsOf(norm_name) \subseteq
              CharsOf(LowerChars) \cup CharsOf(DigitChars) \cup {"-", "'", " "}
        /\ ~Contains("  ", norm_name)
        /\ raw_name = "" => norm_name = ""

\* C18: normalizing the result of normalize gives that result again
C18_NormalizeIdempotent ==
    pc = "renormalized" => norm_again = norm_name

\* C18 case: the first normalization changed the name and left two words
C18_Witness ==
    /\ pc = "renormalized"
    /\ norm_name # raw_name
    /\ Len(Split(norm_name)) >= 2

\* the words of one to five and the numerals
IsOrdinal(w) ==
    \/ w \in {"one", "two", "three", "four", "five"}
    \/ w # "" /\ CharsOf(w) \subseteq CharsOf(DigitChars)

RankWords ==
    {"lieutenant", "captain", "commander", "colonel", "general", "officer", "handler"}

\* an optional "the", one rank word, an optional ordinal, nothing else
IsTitleOnly(ws) ==
    LET rest == IF ws # <<>> /\ Head(ws) = "the" THEN Tail(ws) ELSE ws
    IN  /\ Len(rest) \in {1, 2}
        /\ rest[1] \in RankWords
        /\ Len(rest) = 2 => IsOrdinal(rest[2])

\* C19 as stated: is_non_character is true for every name whose normalized
\* form is an optional "the", a rank word and an optional ordinal ("one" to
\* "five" or a numeral)
C19_TitleOnlyRejected ==
    (pc = "classified" /\ IsTitleOnly(Split(NormalizeName(raw_name)))) => rejected

\* C20 as stated: is_non_character is true for every name whose normalized
\* form has at least 3 words, repeated words counted, one of them a
\* blacklist term
C20_ThreeWordsWithTermRejected ==
    LET ws == Split(NormalizeName(raw_name))
    IN  (pc = "classified" /\ Len(ws) >= 3 /\ Range(ws) \cap non_character_terms # {})
            => rejected

\* a list of records that each have a name, a description and a role, all str
IsWellFormed(v) ==
    /\ v.type = "array"
    /\ \A i \in DOMAIN v.items :
          /\ v.items[i].type = "object"
          /\ DOMAIN v.items[i].fields = {"name", "description", "role"}
          /\ \A k \in DOMAIN v.items[i].fields : v.items[i].fields[k].type = "string"

\* C14 as stated: for a payload that is no list of well-formed mention
\* records extract_characters raises; it never returns a roster
C14_MalformedPayloadRaises ==
    (pc = "done" /\ ~IsWellFormed(payload)) => outcome = "raised"

\* the rosters each list of ConcLists can give when resolved alone
AloneRosters == [chars \in ConcLists |-> MergeCharactersAlone(chars)]

\* C16: resolver invocations running concurrently on mention lists of their own
\* through one shared CharacterService do not interfere: in every interleaving
\* a call that has returned has returned a roster it can return when run
\* alone, and the shared blacklist and pattern tables are as constructed
C16_ConcurrentCallsDoNotInterfere ==
    /\ self_non_character_terms = non_character_terms
    /\ self_descriptive_patterns = descriptive_patterns
    /\ \A t \in DOMAIN calls :
          calls[t].pc = "returned" =>
             calls[t].returned \in AloneRosters[calls[t].characters]

\* both calls have returned; one rejected "friends" on the shared blacklist
\* and patterns, the other kept "Bob and friends" next to a second survivor
C16_Witness ==
    /\ DOMAIN calls = Threads
    /\ \A t \in Threads : calls[t].pc = "returned"
    /\ \E t \in Threads :
          /\ \E k \in DOMAIN calls[t].characters : calls[t].characters[k].name = "friends"
          /\ \A k \in DOMAIN calls[t].returned : calls[t].returned[k].char.name # "friends"
    /\ \E t \in Threads :
          /\ Len(calls[t].filtered_characters) = 2
          /\ \E k \in DOMAIN calls[t].returned :
                "Bob and friends" \in Range(calls[t].returned[k].char.aliases)

SuperlativeWords == {"weakest", "strongest", "best", "worst", "greatest", "lowest"}

GroupWords ==
    {"soldiers", "troops", "children", "enemies", "friends", "group", "squad", "unit"}

\* an optional "the" and one plural group word
IsCollective(ws) ==
    LET rest == IF ws # <<>> /\ Head(ws) = "the" THEN Tail(ws) ELSE ws
    IN  Len(rest) = 1 /\ rest[1] \in GroupWords

\* the five rejection conditions of the filter contract, the descriptive
\* one taken as widely as it can be read: any name with a superlative
MeetsRejectionCondition(ws) ==
    \/ Join(ws) \in non_character_terms
    \/ IsTitleOnly(ws)
    \/ IsCollective(ws)
    \/ \E k \in DOMAIN ws : \E a \in SuperlativeWords : Contains(a, ws[k])
    \/ Range(ws) \cap non_character_terms # {} /\ Len(ws) >= 3

\* C21 as stated: is_non_character is false for every name that meets none
\* of the five rejection conditions; a name without superlative, blacklist
\* word, title-only or collective form is not rejected for its "of the",
\* "who" or "that"
C21_OnlyTheFiveConditionsReject ==
    (pc = "classified" /\ ~MeetsRejectionCondition(Split(NormalizeName(raw_name))))
        => ~rejected

\* dict.get(key, ''): the name and the description of a mention
NameOf(m) == IF "name" \in DOMAIN m THEN m.name ELSE ""
DescriptionOf(m) == IF "description" \in DOMAIN m THEN m.description ELSE ""

\* some word of one name is a substring of, or at least num / den similar
\* to, some word of the other
WordsMatch(n1, n2, num, den) ==
    \E w1 \in Range(Split(n1)) : \E w2 \in Range(Split(n2)) :
       \/ Contains(w1, w2) \/ Contains(w2, w1)
       \/ SimilarityAtLeast(w1, w2, num, den)
       \/ SimilarityAtLeast(w2, w1, num, den)

\* C22 as stated: same_character is true, whatever the descriptions, for two
\* mentions with non-empty names whose normalized names are equal, or one
\* contains the other, or some word of one is a substring of or at least
\* 0.85 similar to some word of the other, or are at least 0.85 similar
C22_NameMatchIsSame ==
    LET n1 == NormalizeName(NameOf(mention1))
        n2 == NormalizeName(NameOf(mention2))
    IN  (/\ pc = "compared"
         /\ NameOf(mention1) # "" /\ NameOf(mention2) # ""
         /\ \/ n1 = n2
            \/ Contains(n1, n2) \/ Contains(n2, n1)
            \/ WordsMatch(n1, n2, 85, 100)
            \/ SimilarityAtLeast(n1, n2, 85, 100))
        => is_same

\* C23 as stated: same_character is true whenever the normalized name of
\* one mention occurs inside the description text of the other, in either
\* direction, also when the mention whose name is found has an empty
\* description of its own
C23_NameInDescriptionIsSame ==
    LET n1 == NormalizeName(NameOf(mention1))
        n2 == NormalizeName(NameOf(mention2))
    IN  (/\ pc = "compared"
         /\ NameOf(mention1) # "" /\ NameOf(mention2) # ""
         /\ \/ Contains(n1, Lower(DescriptionOf(mention2)))
            \/ Contains(n2, Lower(DescriptionOf(mention1))))
        => is_same

\* two mentions with empty descriptions
NoDescriptions == DescriptionOf(mention1) = "" /\ DescriptionOf(mention2) = ""

\* the names share a word, or a name part, longer than 3 characters
SharesSignificantPart(name1, name2) ==
    \/ \E w \in Range(Split(NormalizeName(name1))) \cap Range(Split(NormalizeName(name2))) :
          Len(w) > 3
    \/ \E p \in ExtractNameParts(name1) \cap ExtractNameParts(name2) : Len(p) > 3

\* C24 as stated: same_character is false for two mentions with empty
\* descriptions whose normalized names do not contain one another, share no
\* word part longer than 3 characters and are less than 0.85 similar
C24_DifferentNamesNotSame ==
    LET n1 == NormalizeName(NameOf(mention1))
        n2 == NormalizeName(NameOf(mention2))
    IN  (/\ pc = "compared"
         /\ NoDescriptions
         /\ ~Contains(n1, n2) /\ ~Contains(n2, n1)
         /\ ~SharesSignificantPart(NameOf(mention1), NameOf(mention2))
         /\ ~SimilarityAtLeast(n1, n2, 85, 100))
        => ~is_same

\* C24 amended: same_character is false for two mentions with empty
\* descriptions whose normalized names do not contain one another, have no
\* word of one that is a substring of or at least 0.85 similar to a word
\* of the other, share no word or name part longer than 3 characters and
\* are less than 0.85 similar
C24_UnrelatedNamesNotSame ==
    LET n1 == NormalizeName(NameOf(mention1))
        n2 == NormalizeName(NameOf(mention2))
    IN  (/\ pc = "compared"
         /\ NoDescriptions
         /\ ~Contains(n1, n2) /\ ~Contains(n2, n1)
         /\ ~WordsMatch(n1, n2, 85, 100)
         /\ ~SharesSignificantPart(NameOf(mention1), NameOf(mention2))
         /\ ~SimilarityAtLeast(n1, n2, 85, 100))
        => ~is_same

\* "Bob" and "Levi" without descriptions were compared and found different
C24_Witness ==
    /\ pc = "compared"
    /\ NoDescriptions
    /\ NameOf(mention1) = "Bob" /\ NameOf(mention2) = "Levi"
    /\ ~is_same

\* C30 as stated: within one roster returned by extract_characters the
\* character_id values are pairwise distinct
C30_CharacterIdsDistinct ==
    pc = "done" =>
        \A j, k \in DOMAIN roster :
            roster[j].char.character_id = roster[k].char.character_id => j = k

\* C25: after save_characters(d, roster) succeeds load_characters(d) returns
\* exactly roster, whatever was cached for d before (a later save replaces
\* the entry wholesale), and a save for d leaves what load_characters
\* returns for every other document unchanged
C25_CacheRoundTrip ==
    [][(request'.op = "save_characters") =>
          (/\ (response'.value = PyBool(TRUE)) =>
                 (Loaded(files', request'.document_id) = request'.characters)
           /\ \A d \in DocumentIds \ {request'.document_id} :
                 Loaded(files', d) = Loaded(files, d))]_vars

\* a two-character roster was saved over a cached roster of another size
\* while another document has a roster cached, and loads back as saved
C25_Witness ==
    /\ request.op = "load_characters"
    /\ response.value \in Rosters
    /\ Len(response.value.items) = 2
    /\ \E d \in DocumentIds \ {request.document_id} :
          /\ Loaded(files, d) \in Rosters
          /\ Len(Loaded(files, d).items) = 1

\* C26 as stated: GET extract-characters with force_refresh=false and a
\* cache entry for the document, an empty roster included, runs no
\* extraction, returns the cached roster and leaves the cache unchanged
C26_CachedNeverReExtracted ==
    [][(/\ request'.op = "extract_characters_get"
        /\ "force_refresh" \in DOMAIN request'
        /\ Loaded(files, request'.document_id).py = "list")
       => (request'.force_refresh
           \/ (/\ ~extraction_ran'
               /\ files' = files
               /\ response' = Success(request'.document_id,
                                      Loaded(files, request'.document_id))))]_vars

\* C27 as stated: GET /characters lists every character of every roster
\* stored through save_characters, with its own document_id
C27_ListHasEveryCachedCharacter ==
    request.op = "list_all_characters" =>
        \A d \in DocumentIds :
            Loaded(files, d).py = "list" =>
                \A i \in DOMAIN Loaded(files, d).items :
                    \E k \in DOMAIN response.items :
                        /\ response.items[k].document_id = d
                        /\ response.items[k].id =
                              Loaded(files, d).items[i].fields.character_id.val


\* C28 as stated: every run of process_document_background ends with the stored
\* status READY or FAILED, whichever step fails; the stored status of a queued
\* document does not stay UPLOADING, EXTRACTING, CHUNKING or INDEXING forever;
\* and a stored READY or FAILED is never left
Terminal(fs, document_id) == StoredStatus(fs, document_id) \in {"ready", "failed"}

C28_StatusEndsReadyOrFailed ==
    /\ \A document_id \in UploadIds :
          [](tasks[document_id] \in {"returned", "raised"} => Terminal(files, document_id))
    /\ \A document_id \in UploadIds :
          (tasks[document_id] = "queued") ~> Terminal(files, document_id)
    /\ [][\A document_id \in UploadIds :
            Terminal(files, document_id) =>
              StoredStatus(files', document_id) = StoredStatus(files, document_id)]_vars
\* the history get_conversation_history returns for a pair
HistoryOf(table, pair) == GetConversationHistory(table, pair[1], pair[2])

\* the roles of a history are user, assistant, user, assistant, ...
Alternates(messages) ==
    \A i \in DOMAIN messages :
        messages[i].fields.role.val = (IF i % 2 = 1 THEN "user" ELSE "assistant")

\* C29 as stated: a save_message on a pair appends the user message and then
\* the assistant response to the pair's history and keeps the earlier messages,
\* a clear_session empties it, so the history alternates user, assistant and has
\* two messages per save since the creation or the last clear; the history of
\* every other pair is unchanged by either call
C29_SaveAppendsExchange ==
    [][\A pair \in ChatPairs :
         LET called == <<request'.document_id, request'.character_id>>
             before == HistoryOf(chat_sessions, pair)
             after == HistoryOf(chat_sessions', pair)
         IN  /\ (request'.op = "save_message" /\ ~response'.raised /\ called = pair) =>
                   /\ after = before \o <<Message("user", request'.user_message),
                                          Message("assistant", request'.assistant_response)>>
                   /\ Alternates(after)
             /\ (request'.op = "clear_session" /\ ~response'.raised /\ called = pair) =>
                   after = <<>>
             /\ (request'.op \in {"save_message", "clear_session"} /\ called # pair) =>
                   after = before]_vars
====
